---------------------------- MODULE Spec2Model ----------------------------
(***************************************************************************)
(* Model of the reconciler of src/react_ipywidgets/core.py: the render     *)
(* phase (_render), the consolidation phase (_reconsolidate), removal      *)
(* (_remove_element), the hooks, and the stabilization loop of             *)
(* _RenderContext.render.                                                  *)
(*                                                                         *)
(* One action models one call of the public surface (render, a setter      *)
(* called from outside a pass, close).  The body of a call is computed by  *)
(* operators that thread a record s holding every field of the             *)
(* _RenderContext, the heap of ComponentContext objects, the registry of   *)
(* the node library, the pending exception (err) and the list of the       *)
(* operations the call performed on nodes and effects (log).               *)
(***************************************************************************)
EXTENDS Integers, Sequences, FiniteSets, TLC

VARIABLES
    element,          \* _RenderContext.element
    container,        \* _RenderContext.container (node id, 0: None)
    first_render,     \* _RenderContext.first_render
    context,          \* _RenderContext.context (id of a ComponentContext)
    render_count,     \* _RenderContext.render_count
    last_root_widget, \* _RenderContext.last_root_widget (node id, 0: None)
    is_rendering,     \* _RenderContext._is_rendering
    state_changed,    \* _RenderContext._state_changed
    widgets,          \* _RenderContext._widgets: element id -> node id
    rc_elements_next, \* _RenderContext._elements_next: set of element ids
    rc_elements,      \* _RenderContext._elements: set of element ids
    orphans,          \* _RenderContext._orphans: node id -> set of node ids
    old_element_ids,  \* _RenderContext._old_element_ids
    contexts,         \* the ComponentContext objects, by id (1: context_root)
    nodes,            \* the node library's objects, by id (Widget.widgets holds the open ones)
    rc_global,        \* the module global _rc: TRUE when it points to this _RenderContext
    gen,              \* number of element constructions so far (fresh identities)
    err,              \* the exception the last call raised ("": it returned)
    log,              \* what the last call did to nodes and effects, in order
    calls,            \* number of calls made so far
    last_call,        \* the last call and its input
    render_counts,    \* the local render_counts of the last render() call
    hook_log,         \* the hook and setter calls of the last call, in order
    program,          \* the program that makes the calls (an index of Programs)
    thread_lock,      \* _RenderContext.thread_lock: the thread that holds it (0: free)
    thread_pc,        \* where each thread of the program is in its call
    thread_frame,     \* the arguments and local variables of each thread's render() call
    container_adders, \* _RenderContext.container_adders: the open nesting blocks
    block_elements    \* the elements a render function with nesting blocks constructed

vars == <<element, container, first_render, context, render_count, last_root_widget,
          is_rendering, state_changed, widgets, rc_elements_next, rc_elements, orphans,
          old_element_ids, contexts, nodes, rc_global, gen, err, log, calls, last_call,
          render_counts, hook_log, program, thread_lock, thread_pc,
          thread_frame, container_adders, block_elements>>

\* what the threads of the program add to the state
tvars == <<thread_lock, thread_pc, thread_frame>>

bvars == <<container_adders, block_elements>>

-----------------------------------------------------------------------------
(* Bounds of the model and constants of the program *)

\* number of calls of the public surface in one behaviour
MaxCalls == 3

\* the threads of the program that call the render context
Threads == {1, 2}

\* the iteration ceiling of the stabilization loop
MaxRenders == 50

ROOT_KEY == "ROOT::"

NoKey == "None"

-----------------------------------------------------------------------------
(* Dictionaries *)

EmptyDict == [x \in {} |-> 0]

Put(d, k, v) == (k :> v) @@ d

Del(d, k) == [x \in (DOMAIN d) \ {k} |-> d[x]]

Has(d, k) == k \in DOMAIN d

Min(a, b) == IF a < b THEN a ELSE b

RECURSIVE Last(_)
\* the element of the set X that is taken when every other one was taken before
Last(X) ==
    LET x == CHOOSE y \in X : TRUE
    IN  IF X = {x} THEN x ELSE Last(X \ {x})

\* the orders in which a call iterates over the sets it holds
Orders == {"up", "down"}

\* the element a loop over the set X takes first, in the iteration order of the call
First(order, X) == IF order = "up" THEN CHOOSE y \in X : TRUE ELSE Last(X)

-----------------------------------------------------------------------------
(* Elements.  An element is an object: its identity is the field id.  The  *)
(* keyword arguments of an element are held split the way split_kwargs     *)
(* splits them: props (plain properties), handlers (the <name> of every    *)
(* on_<name> argument, in order) and the list argument "children"          *)
(* (has_children                                                           *)
(* tells whether it was given).  A function component's element also holds *)
(* the script of its render function.                                      *)

WidgetTypes == {"Button", "Text", "VBox"}

NoDeps == [none |-> TRUE, list |-> << >>]

Deps(l) == [none |-> FALSE, list |-> l]

NoScript == [bump |-> "none", effects |-> << >>, rets |-> << >>, eq |-> "None", hooks |-> << >>]

NoEl ==
    [id |-> <<0, 0>>, component |-> "None", key |-> NoKey, props |-> EmptyDict,
     handlers |-> << >>, children |-> << >>, has_children |-> FALSE, script |-> NoScript]

\* isinstance(el.component, ComponentWidget)
IsWidgetEl(el) == el.component \in WidgetTypes

\* isinstance(el.component, ComponentFunction)
IsFunctionEl(el) == el.component \notin WidgetTypes \cup {"None"}

(* Descriptions: the expression that constructs an element.  lid tells the *)
(* place of the constructor call in the program text; held tells that the  *)
(* object is constructed once and kept (a module-level value, a closure),  *)
(* otherwise every evaluation constructs a new object.                     *)

\* a widget element: Component[type](key, **props, on_..., children=kids)
W(lid, type, key, props, handlers, kids) ==
    [ref |-> "el", lid |-> lid, held |-> FALSE, component |-> type, key |-> key,
     props |-> props, handlers |-> handlers, children |-> kids,
     has_children |-> TRUE, script |-> NoScript]

\* a widget element without the argument children
Leaf(lid, type, key, props, handlers) ==
    [ref |-> "el", lid |-> lid, held |-> FALSE, component |-> type, key |-> key,
     props |-> props, handlers |-> handlers, children |-> << >>,
     has_children |-> FALSE, script |-> NoScript]

\* a function component's element: name(children=kids), rendering by script
Fn(lid, name, key, script, kids) ==
    [ref |-> "el", lid |-> lid, held |-> FALSE, component |-> name, key |-> key,
     props |-> EmptyDict, handlers |-> << >>, children |-> kids,
     has_children |-> kids # << >>, script |-> script]

\* inside a render function: the i-th element of the argument children
Arg(i) == [ref |-> "arg", index |-> i]

RECURSIVE Held(_)
\* the same expression, evaluated once and kept
Held(d) ==
    IF d.ref = "arg" THEN d
    ELSE [d EXCEPT !.held = TRUE,
                   !.children = [i \in 1..Len(d.children) |-> Held(d.children[i])]]

RECURSIVE Instantiate(_, _, _)
\* Element.__init__ for every constructor call of d, in construction g
Instantiate(d, g, args) ==
    IF d.ref = "arg" THEN args[d.index]
    ELSE [id |-> IF d.held THEN <<0, d.lid>> ELSE <<g, d.lid>>,
          component |-> d.component,
          key |-> d.key,
          props |-> d.props,
          handlers |-> d.handlers,
          children |-> [i \in 1..Len(d.children) |-> Instantiate(d.children[i], g, args)],
          has_children |-> d.has_children,
          script |-> d.script]

-----------------------------------------------------------------------------
(* The node library (external): nodes are objects with a type, properties, *)
(* observers and a closed flag; Widget.widgets holds the open ones.        *)
(* Constructing a node of a DOM type constructs its layout node too.       *)

\* traits[name].default()
DefaultOf(name) ==
    CASE name = "description" -> ""
      [] name = "value" -> 0
      [] OTHER -> 0

Ev(op, node, ctx, slot, name) ==
    [op |-> op, node |-> node, ctx |-> ctx, slot |-> slot, name |-> name]

\* set(widgets.Widget.widgets)
Registry(s) == {n \in 1..Len(s.nodes) : ~s.nodes[n].closed}

NewNode(type, props, kids) ==
    [type |-> type,
     props |-> [description |-> IF "description" \in DOMAIN props
                                THEN props["description"] ELSE DefaultOf("description"),
                value |-> IF "value" \in DOMAIN props
                          THEN props["value"] ELSE DefaultOf("value")],
     children |-> kids, closed |-> FALSE, observers |-> {}, nobs |-> 0]

\* el.component.widget(**kwargs): the new node is s.ret
CreateWidget(s, type, props, kids) ==
    LET n == Len(s.nodes) + 1
    IN  [s EXCEPT !.nodes = @ \o <<NewNode(type, props, kids),
                                   NewNode("Layout", EmptyDict, << >>)>>,
                  !.log = @ \o <<Ev("create", n, 0, 0, type),
                                 Ev("create", n + 1, 0, 0, "Layout")>>,
                  !.ret = n]

\* widget.close()
CloseWidget(s, n) ==
    [s EXCEPT !.nodes[n].closed = TRUE,
              !.log = Append(@, Ev("close", n, 0, 0, ""))]

\* setattr(widget, name, value) for a plain property
SetProp(s, n, name, value) ==
    [s EXCEPT !.nodes[n].props = [@ EXCEPT ![name] = value],
              !.log = Append(@, Ev("set", n, 0, 0, name))]

\* setattr(widget, "children", value)
SetChildren(s, n, kids) ==
    [s EXCEPT !.nodes[n].children = kids,
              !.log = Append(@, Ev("set", n, 0, 0, "children"))]

\* widget.observe(event_handler, name): the handler is a new closure over
\* the listener that the element owner declared
Observe(s, n, name, owner) ==
    [s EXCEPT !.nodes[n].observers = @ \cup {<<name, s.nodes[n].nobs + 1, owner>>},
              !.nodes[n].nobs = @ + 1,
              !.log = Append(@, Ev("observe", n, 0, 0, name))]

\* widget.unobserve(event_handler, name)
Unobserve(s, n, name, hid) ==
    [s EXCEPT !.nodes[n].observers = {o \in @ : ~(o[1] = name /\ o[2] = hid)},
              !.log = Append(@, Ev("unobserve", n, 0, 0, name))]

-----------------------------------------------------------------------------
(* ComponentContext and Effect *)

NewContext(parent) ==
    [parent |-> parent, invoke_element |-> NoEl, root_element |-> NoEl,
     elements_next |-> EmptyDict, elements |-> EmptyDict,
     children_next |-> EmptyDict, children |-> EmptyDict,
     state |-> EmptyDict, state_index |-> 0,
     effects |-> << >>, effect_index |-> 0,
     memo |-> << >>, memo_index |-> 0,
     user_contexts |-> EmptyDict, used_keys |-> {}, owns |-> {}]

\* the id of _RenderContext.context_root (0: no context)
context_root == 1

NoCleanup == [some |-> FALSE, kind |-> "", node |-> 0, name |-> "", hid |-> 0]

NoCallable ==
    [kind |-> "", idx |-> 0, returns_cleanup |-> FALSE, sets |-> FALSE, node |-> 0, name |-> "",
     el |-> <<0, 0>>]

\* the callable of the i-th use_side_effect of a render function; sets tells
\* that it calls the setter of the component's state with  lambda old: old + 1
UserCallable(i, returns_cleanup, sets) ==
    [kind |-> "user", idx |-> i, returns_cleanup |-> returns_cleanup, sets |-> sets,
     node |-> 0, name |-> "", el |-> <<0, 0>>]

\* the callable of the i-th use_side_effect of a render function when it
\* calls get_widget(saved), saved being the first element the program
\* constructed at the place lid of its text (node holds lid)
GetCallable(i, lid) ==
    [kind |-> "get", idx |-> i, returns_cleanup |-> FALSE, sets |-> FALSE,
     node |-> lid, name |-> "", el |-> <<0, 0>>]

\* add_event_handler of handle_custom_kwargs, closed over widget, name and
\* the listener of the element el
HandlerCallable(n, name, el) ==
    [kind |-> "handler", idx |-> 0, returns_cleanup |-> TRUE, sets |-> FALSE,
     node |-> n, name |-> name, el |-> el]

\* Effect.__init__
NewEffect(callable, dependencies) ==
    [callable |-> callable, dependencies |-> dependencies, cleanup |-> NoCleanup,
     has_next |-> FALSE, next_callable |-> NoCallable, next_dependencies |-> NoDeps,
     executed |-> FALSE]

-----------------------------------------------------------------------------
(* Hooks.  s.context is the context of the render function being called.   *)

\* raise e
Raise(s, e) == [s EXCEPT !.err = e]

\* a statement sequence: F is the rest of the block, skipped when the part
\* before it raised
Bind(s, F(_)) == IF s.err # "" THEN s ELSE F(s)

\* self.context = c
SetContext(s, c) == [s EXCEPT !.context = c]

RECURSIVE RenderCall(_, _, _)

\* a hook or setter call as hook_log records it: the context, the argument
\* key (key_arg) and the slot addressed (key), the argument (arg), what was
\* returned or stored (value), whether the slot was written (wrote), whether
\* _rc was set (in_pass) and _is_rendering (guard) at the call, and the
\* length of log at the call (at); op "call" is the invocation of the render
\* function of the context
HookEv(s, op, c, key_arg, key, arg, value, wrote) ==
    [op |-> op, ctx |-> c, key_arg |-> key_arg, key |-> key, arg |-> arg, value |-> value,
     wrote |-> wrote, in_pass |-> s.rc_global, guard |-> s.is_rendering, at |-> Len(s.log)]

\* use_state that returns its argument whatever the slot holds
UseStateInitial(s, initial, key_arg) ==
    LET c == s.context
        key == IF key_arg = NoKey THEN ToString(s.contexts[c].state_index) ELSE key_arg
        s1 == IF key_arg = NoKey
              THEN [s EXCEPT !.contexts[c].state_index = @ + 1]
              ELSE s
    IN  [s1 EXCEPT !.contexts[c].state = Put(@, key, initial), !.ret = initial,
                   !.hook_log = Append(@, HookEv(s, "use_state", c, key_arg, key, initial,
                                                 initial, TRUE))]

\* _RenderContext.use_state: the value is s.ret
UseState(s, initial, key_arg) ==
    LET c == s.context
        key == IF key_arg = NoKey THEN ToString(s.contexts[c].state_index) ELSE key_arg
        s1 == IF key_arg = NoKey
              THEN [s EXCEPT !.contexts[c].state_index = @ + 1]
              ELSE s
    IN  IF ~Has(s.contexts[c].state, key)
        THEN [s1 EXCEPT !.contexts[c].state = Put(@, key, initial), !.ret = initial,
                        !.hook_log = Append(@, HookEv(s, "use_state", c, key_arg, key, initial,
                                                      initial, TRUE))]
        ELSE [s1 EXCEPT !.ret = s.contexts[c].state[key],
                        !.hook_log = Append(@, HookEv(s, "use_state", c, key_arg, key, initial,
                                                      s.contexts[c].state[key], FALSE))]

\* eq(old, value) of the setter: "mod2" is a caller's eq comparing parities
EqHolds(eq, old, value) ==
    IF eq = "mod2" THEN old % 2 = value % 2 ELSE old = value

\* set(value) without the test of should_update
SetterCallAlways(s, c, key, upd, eq) ==
    LET old == s.contexts[c].state[key]
        value == IF upd.fn THEN old + upd.v ELSE upd.v
    IN  IF ~s.is_rendering
        THEN RenderCall([s EXCEPT !.contexts[c].state = Put(@, key, value),
                                  !.state_changed = TRUE,
                                  !.hook_log = Append(@, HookEv(s, "set", c, key, key, old, value,
                                                                TRUE))],
                        s.element, s.container)
        ELSE [s EXCEPT !.contexts[c].state = Put(@, key, value), !.state_changed = TRUE,
                       !.hook_log = Append(@, HookEv(s, "set", c, key, key, old, value, TRUE))]

\* line 636: should_update of set(value); upd.fn tells that the argument is
\* the updater  lambda old: old + upd.v
ShouldUpdate(s, c, key, upd, eq) ==
    LET old == s.contexts[c].state[key]
        value == IF upd.fn THEN old + upd.v ELSE upd.v
    IN  IF eq # "None" THEN ~EqHolds(eq, old, value) ELSE old # value

\* lines 632-644 of set(value): what the setter does before it looks at
\* _is_rendering
SetterWrite(s, c, key, upd, eq) ==
    LET old == s.contexts[c].state[key]
        value == IF upd.fn THEN old + upd.v ELSE upd.v
    IN  IF ~ShouldUpdate(s, c, key, upd, eq)
        THEN [s EXCEPT !.hook_log = Append(@, HookEv(s, "set", c, key, key, old, value, FALSE))]
        ELSE [s EXCEPT !.contexts[c].state = Put(@, key, value), !.state_changed = TRUE,
                       !.hook_log = Append(@, HookEv(s, "set", c, key, key, old, value, TRUE))]

\* the closure set(value) that make_setter(key, context, eq) returns
SetterCall(s, c, key, upd, eq) ==
    IF ShouldUpdate(s, c, key, upd, eq) /\ ~s.is_rendering
    THEN RenderCall(SetterWrite(s, c, key, upd, eq), s.element, s.container)
    ELSE SetterWrite(s, c, key, upd, eq)

\* _RenderContext.use_side_effect
UseSideEffect(s, callable, dependencies) ==
    LET c == s.context
        ctx == s.contexts[c]
        i == ctx.effect_index
    IN  IF Len(ctx.effects) <= i
        THEN [s EXCEPT !.contexts[c].effect_index = @ + 1,
                       !.contexts[c].effects = Append(@, NewEffect(callable, dependencies))]
        ELSE IF ctx.effects[i + 1].executed
        THEN [s EXCEPT !.contexts[c].effects[i + 1].has_next = TRUE,
                       !.contexts[c].effects[i + 1].next_callable = callable,
                       !.contexts[c].effects[i + 1].next_dependencies = dependencies,
                       !.contexts[c].effect_index = @ + 1]
        ELSE [s EXCEPT !.contexts[c].effects[i + 1] = NewEffect(callable, dependencies),
                       !.contexts[c].effect_index = @ + 1]

\* _get_render_context(): the render context is s itself
get_render_context(s) ==
    IF ~s.rc_global THEN Raise(s, "NoActiveRenderContext") ELSE s

\* use_state without the test of _rc
use_state_unchecked(s, initial, key_arg) == UseState(s, initial, key_arg)

\* the module's use_state (lines 325-338)
use_state(s, initial, key_arg) ==
    IF ~s.rc_global THEN Raise(s, "NoActiveRenderContext")
    ELSE UseState(s, initial, key_arg)

\* the module's use_side_effect (lines 341-345)
use_side_effect(s, callable, dependencies) ==
    IF ~s.rc_global THEN Raise(s, "NoActiveRenderContext")
    ELSE UseSideEffect(s, callable, dependencies)

\* get_widget after _get_render_context(); hook_log records the element,
\* whether it is committed, pending or known from a walk, and what the call
\* returned or raised
GetWidget(s, id) ==
    LET arg == [id |-> id, committed |-> id \in s.rc_elements,
                pending |-> id \in s.rc_elements_next, known |-> id \in s.old_element_ids]
    IN  IF ~Has(s.widgets, id)
        THEN Raise([s EXCEPT !.hook_log =
                        Append(@, HookEv(s, "get_widget", s.context, NoKey, NoKey, arg,
                                         [raised |-> TRUE, node |-> 0], FALSE))],
                   IF id \in s.old_element_ids THEN "StaleElementReference" ELSE "KeyError")
        ELSE [s EXCEPT !.hook_log =
                  Append(@, HookEv(s, "get_widget", s.context, NoKey, NoKey, arg,
                                   [raised |-> FALSE, node |-> s.widgets[id]], FALSE))]

\* the module's get_widget (lines 314-322)
get_widget(s, id) == Bind(get_render_context(s), LAMBDA t : GetWidget(t, id))

\* the element saved at the place lid: the first one constructed there
SavedId(s, lid) ==
    CHOOSE id \in s.old_element_ids :
        id[2] = lid /\ \A other \in s.old_element_ids : other[2] = lid => id[1] <= other[1]

RECURSIVE UseSideEffects(_, _, _)
\* the use_side_effect calls of a render function, in declaration order
UseSideEffects(s, effs, i) ==
    IF i > Len(effs) THEN s
    ELSE UseSideEffects(
             use_side_effect(s,
                             IF effs[i].gets # 0 THEN GetCallable(i, effs[i].gets)
                             ELSE UserCallable(i, effs[i].returns_cleanup, effs[i].sets),
                             effs[i].deps),
             effs, i + 1)

\* the return statement of a render function that read the state value v
ComponentReturn(s, el, v) ==
    [s EXCEPT !.gen = @ + 1,
              !.ret_el = Instantiate(el.script.rets[Min(v + 1, Len(el.script.rets))],
                                     s.gen + 1, el.children)]

\* Python's None among the values a program provides as context (the
\* others are "a" and "b")
None == "None"

\* d.get(key)
Get(d, key) == IF Has(d, key) THEN d[key] ELSE None

RECURSIVE Chain(_, _)
\* the user_contexts of the context c and of its parents, nearest first
Chain(s, c) ==
    IF c = 0 THEN << >> ELSE <<s.contexts[c].user_contexts>> \o Chain(s, s.contexts[c].parent)

RECURSIVE ContextLookup(_, _, _)
\* the loop of lines 393-397, from the context c on: the value it ends with
ContextLookup(s, key, c) ==
    IF c = 0 THEN None
    ELSE IF Get(s.contexts[c].user_contexts, key) # None
    THEN Get(s.contexts[c].user_contexts, key)
    ELSE ContextLookup(s, key, s.contexts[c].parent)

\* use_context after _get_render_context(); hook_log records the chain at
\* the call and what the call returned, or that it raised
UseContext(s, key) ==
    IF ContextLookup(s, key, s.context) = None
    THEN Raise([s EXCEPT !.hook_log =
                    Append(@, HookEv(s, "use_context", s.context, key, key,
                                     Chain(s, s.context),
                                     [raised |-> TRUE, value |-> None], FALSE))],
               "ContextNotFound")
    ELSE [s EXCEPT !.hook_log =
              Append(@, HookEv(s, "use_context", s.context, key, key, Chain(s, s.context),
                               [raised |-> FALSE,
                                value |-> ContextLookup(s, key, s.context)], FALSE))]

\* the module's use_context (lines 391-400)
use_context(s, key) == Bind(get_render_context(s), LAMBDA t : UseContext(t, key))

\* the module's provide_context (lines 437-441)
provide_context(s, key, obj) ==
    Bind(get_render_context(s),
         LAMBDA t : [t EXCEPT !.contexts[t.context].user_contexts = Put(@, key, obj)])

\* no memo slot
NoMemo == [some |-> FALSE, value |-> 0, deps |-> << >>]

\* the tuple (value, (args, kwargs)) of a memo slot
Memo(value, deps) == [some |-> TRUE, value |-> value, deps |-> deps]

\* what hook_log records of a use_memo call: the pair passed and the slot
\* before the call, whether f was called, the value returned and the slot
\* after the call
MemoEv(s, i, deps, before, computed, after) ==
    HookEv(s, "use_memo", s.context, NoKey, ToString(i), [deps |-> deps, before |-> before],
           [computed |-> computed, value |-> after.value, after |-> after], computed)

\* use_memo that calls f in every pass
UseMemoAlways(s, deps, result) ==
    LET c == s.context
        i == s.contexts[c].memo_index
    IN  IF Len(s.contexts[c].memo) <= i
        THEN [s EXCEPT !.contexts[c].memo_index = i + 1,
                       !.contexts[c].memo = Append(@, Memo(result, deps)),
                       !.hook_log = Append(@, MemoEv(s, i, deps, NoMemo, TRUE,
                                                     Memo(result, deps)))]
        ELSE [s EXCEPT !.contexts[c].memo[i + 1] = Memo(result, deps),
                       !.contexts[c].memo_index = i + 1,
                       !.hook_log = Append(@, MemoEv(s, i, deps, s.contexts[c].memo[i + 1],
                                                     TRUE, Memo(result, deps)))]

\* _RenderContext.use_memo(f, args, kwargs): deps is the pair (args, kwargs)
\* and result is what f(*args, **kwargs) returns if it is called now
UseMemo(s, deps, result) ==
    LET c == s.context
        i == s.contexts[c].memo_index
    IN  IF Len(s.contexts[c].memo) <= i
        THEN [s EXCEPT !.contexts[c].memo_index = i + 1,
                       !.contexts[c].memo = Append(@, Memo(result, deps)),
                       !.hook_log = Append(@, MemoEv(s, i, deps, NoMemo, TRUE,
                                                     Memo(result, deps)))]
        ELSE IF s.contexts[c].memo[i + 1].deps = deps
        THEN [s EXCEPT !.contexts[c].memo_index = i + 1,
                       !.hook_log = Append(@, MemoEv(s, i, deps, s.contexts[c].memo[i + 1],
                                                     FALSE, s.contexts[c].memo[i + 1]))]
        ELSE [s EXCEPT !.contexts[c].memo[i + 1] = Memo(result, deps),
                       !.contexts[c].memo_index = i + 1,
                       !.hook_log = Append(@, MemoEv(s, i, deps, s.contexts[c].memo[i + 1],
                                                     TRUE, Memo(result, deps)))]

\* the module's use_memo(f, args=..., kwargs=...) (lines 403-414)
use_memo(s, deps, result) ==
    Bind(get_render_context(s), LAMBDA t : UseMemo(t, deps, result))

\* Element.__init__ (lines 104-115) called by a render function outside any
\* nesting block: the element is constructed and registered nowhere;
\* hook_log records the construction
ElementInit(s, el) ==
    [s EXCEPT !.hook_log = Append(@, HookEv(s, "element", s.context, NoKey, NoKey, el.id,
                                            0, FALSE))]

\* other.render(el) for another _RenderContext, called by a render function
\* during a pass of this one: its prologue sets the module global _rc to
\* other (line 681) and its finally sets it to None (lines 781-782); what
\* the pass does to the objects of other is not part of this state
OtherRender(s) ==
    [s EXCEPT !.rc_global = FALSE,
              !.hook_log = Append(@, HookEv(s, "render_other", s.context, NoKey, NoKey, 0,
                                            0, FALSE))]

\* one more hook call of a render function that read the state value v; a
\* hook with unless = v is not called in this invocation, a use_state hook
\* with add_value passes the initial value  initial + v, and provide_context
\* passes the value the list values holds for v
RunHook(s, h, v) ==
    IF h.unless = v THEN s
    ELSE CASE h.op = "use_state" ->
                use_state(s, IF h.add_value THEN h.initial + v ELSE h.initial, h.key)
           [] h.op = "provide_context" ->
                provide_context(s, h.key, h.values[Min(v + 1, Len(h.values))])
           [] h.op = "use_context" -> use_context(s, h.key)
           [] h.op = "use_memo" ->
                use_memo(s, h.deps[Min(v + 1, Len(h.deps))], h.base + v)
           [] h.op = "element" -> ElementInit(s, Instantiate(h.desc, s.gen + 1, << >>))
           [] h.op = "render_other" -> OtherRender(s)

RECURSIVE RunHooks(_, _, _, _)
\* the hook calls of a render function after the first, in program order
RunHooks(s, hooks, v, i) ==
    IF i > Len(hooks) \/ s.err # "" THEN s
    ELSE RunHooks(RunHook(s, hooks[i], v), hooks, v, i + 1)

\* the rest of the body of a render function: its effects, the setter call
\* bump tells of (set_value(value + 1) always, or once: when value is 0, or
\* set_value(value): same) and the return statement
ComponentRest(s, el, c, v) ==
    ComponentReturn(
        IF el.script.bump = "always" \/ (el.script.bump = "once" /\ v = 0)
        THEN SetterCall(UseSideEffects(s, el.script.effects, 1), c, "0",
                        [fn |-> FALSE, v |-> v + 1], el.script.eq)
        ELSE IF el.script.bump = "same"
        THEN SetterCall(UseSideEffects(s, el.script.effects, 1), c, "0",
                        [fn |-> FALSE, v |-> v], el.script.eq)
        ELSE UseSideEffects(s, el.script.effects, 1),
        el, v)

\* the body of a render function after  value, set_value = use_state(0)
ComponentBody(s, el, c, v) ==
    Bind(RunHooks(s, el.script.hooks, v, 1), LAMBDA t : ComponentRest(t, el, c, v))

\* el.component.f(*el.args, **el.kwargs): the render function of a function
\* component, interpreting the script of its element; the root element it
\* returns is s.ret_el
CallComponent(s, el, key) ==
    Bind(use_state([s EXCEPT !.hook_log =
                        Append(@, HookEv(s, "call", s.context, NoKey, key,
                                         [component |-> el.component,
                                          parent |-> s.contexts[s.context].parent],
                                         0, FALSE))],
                   0, NoKey),
         LAMBDA t : ComponentBody(t, el, t.context, t.ret))

-----------------------------------------------------------------------------
(* Render phase *)

join_key(parent_key, key) == parent_key \o key

same_component(c1, c2) == c1 = c2

\* the key _visit_children_values gives the index-th element of kwargs["children"]
ChildKey(key, index) == key \o "children" \o "/" \o ToString(index) \o "/"

\* key = el._key, or the default key
ResolveKey(el, default_key) ==
    LET dk == IF default_key = "/" THEN el.component \o "/" ELSE default_key
    IN  IF el.key = NoKey THEN dk ELSE el.key

NewContextId(s) == Len(s.contexts) + 1

RECURSIVE Render(_, _, _, _)
RECURSIVE RenderChildren(_, _, _, _, _)
RECURSIVE RenderFunction(_, _, _, _)

\* _visit_children(el, key, parent_key, self._render), from the i-th child on
RenderChildren(s, el, key, parent_key, i) ==
    IF i > Len(el.children) \/ s.err # "" THEN s
    ELSE RenderChildren(Render(s, el.children[i], ChildKey(key, i - 1), parent_key),
                        el, key, parent_key, i + 1)

\* _render without the reset of used_keys at the root element of a context
RenderKeepKeys(s0, el, default_key, parent_key) ==
    LET c == s0.context
        key == ResolveKey(el, default_key)
        used_keys == s0.contexts[c].used_keys
        s1 == [s0 EXCEPT !.old_element_ids = @ \cup {el.id}]
    IN  IF key \in used_keys
        THEN Raise([s1 EXCEPT !.contexts[c].used_keys = used_keys], "KeyCollision")
        ELSE IF el.id \in s0.rc_elements_next
        THEN [s1 EXCEPT !.contexts[c].used_keys = used_keys \cup {key}]
        ELSE Bind(RenderChildren([s1 EXCEPT !.contexts[c].used_keys = used_keys \cup {key},
                                            !.contexts[c].elements_next = Put(@, key, el),
                                            !.rc_elements_next = @ \cup {el.id}],
                                 el, key, parent_key, 1),
                  LAMBDA t : IF IsFunctionEl(el)
                             THEN RenderFunction(t, el, key, parent_key)
                             ELSE t)

\* _RenderContext._render
Render(s0, el, default_key, parent_key) ==
    LET c == s0.context
        key == ResolveKey(el, default_key)
        used_keys == IF default_key = "/" THEN {} ELSE s0.contexts[c].used_keys
        s1 == [s0 EXCEPT !.old_element_ids = @ \cup {el.id}]
    IN  IF key \in used_keys
        THEN Raise([s1 EXCEPT !.contexts[c].used_keys = used_keys], "KeyCollision")
        ELSE IF el.id \in s0.rc_elements_next
        THEN [s1 EXCEPT !.contexts[c].used_keys = used_keys \cup {key}]
        ELSE Bind(RenderChildren([s1 EXCEPT !.contexts[c].used_keys = used_keys \cup {key},
                                            !.contexts[c].elements_next = Put(@, key, el),
                                            !.rc_elements_next = @ \cup {el.id}],
                                 el, key, parent_key, 1),
                  LAMBDA t : IF IsFunctionEl(el)
                             THEN RenderFunction(t, el, key, parent_key)
                             ELSE t)

\* lines 833-860: the context the render function of el is called in
ContextOf(s, el, key) ==
    LET pc == s.contexts[s.context]
        has_prev == Has(pc.children, key) \/ Has(pc.children_next, key)
        prev == IF Has(pc.children, key) THEN pc.children[key] ELSE pc.children_next[key]
    IN  IF has_prev /\ (\/ s.contexts[prev].root_element = NoEl
                        \/ same_component(s.contexts[prev].invoke_element.component,
                                          el.component))
        THEN prev
        ELSE NewContextId(s)

\* lines 836-870: enter the context cid (a new one when cid is not yet a context)
EnterContext(s, el, cid) ==
    LET p == s.context
        s1 == IF cid = NewContextId(s) THEN [s EXCEPT !.contexts = Append(@, NewContext(p))]
              ELSE IF s.contexts[cid].root_element = NoEl THEN s
              ELSE [s EXCEPT !.contexts[cid].parent = p]
    IN  [s1 EXCEPT !.contexts[cid].invoke_element = el,
                   !.context = cid,
                   !.contexts[cid].state_index = 0,
                   !.contexts[cid].effect_index = 0,
                   !.contexts[cid].memo_index = 0]

\* lines 887-893: after the render function returned
RenderRoot(s, cid, key, parent_key, render_count_before) ==
    IF s.render_count # render_count_before THEN Raise(s, "RuntimeError")
    ELSE Bind(Render([s EXCEPT !.contexts[cid].root_element = s.ret_el],
                     s.ret_el, "/", join_key(parent_key, key)),
              LAMBDA t : [t EXCEPT !.contexts[t.contexts[cid].parent].children_next =
                                       Put(@, key, cid)])

\* the finally of lines 894-896
LeaveContext(s, cid) == [s EXCEPT !.context = s.contexts[cid].parent]

\* _RenderContext._render, the part for a function component (lines 830-897)
RenderFunction(s, el, key, parent_key) ==
    LET cid == ContextOf(s, el, key)
    IN  LeaveContext(
            Bind(CallComponent(EnterContext(s, el, cid), el, key),
                 LAMBDA t : RenderRoot(t, cid, key, parent_key, s.render_count)),
            cid)

-----------------------------------------------------------------------------
(* Removal *)

RECURSIVE RemoveElement(_, _, _, _)
RECURSIVE RemoveChildren(_, _, _, _, _)
RECURSIVE CloseOrphans(_, _)
RECURSIVE RemoveAll(_, _, _, _)

\* the loop of lines 1161-1165: close every orphan still in Widget.widgets
CloseOrphans(s, todo) ==
    IF todo = {} THEN s
    ELSE LET o == First(s.order, todo)
         IN  CloseOrphans(IF o \in Registry(s) THEN CloseWidget(s, o) ELSE s, todo \ {o})

\* _visit_children(el, key, parent_key, self._remove_element), from the i-th child on
RemoveChildren(s, el, key, parent_key, i) ==
    IF i > Len(el.children) \/ s.err # "" THEN s
    ELSE RemoveChildren(RemoveElement(s, el.children[i], ChildKey(key, i - 1), parent_key),
                        el, key, parent_key, i + 1)

\* the part of _remove_element for a function component (lines 1149-1158)
RemoveFunction(s, el, key, parent_key, key_created) ==
    LET c == s.context
        child == s.contexts[c].children[key_created]
    IN  IF ~Has(s.contexts[c].children, key_created) THEN Raise(s, "KeyError")
        ELSE Bind(SetContext(
                      IF s.contexts[child].root_element = NoEl
                      THEN Raise(SetContext(s, child), "AssertionError")
                      ELSE RemoveElement(SetContext(s, child),
                                         s.contexts[child].root_element, "/",
                                         join_key(parent_key, key)),
                      c),
                  LAMBDA t : [t EXCEPT !.contexts[c].children = Del(@, key_created),
                                       !.log = Append(@, Ev("discard", 0, child, 0, ""))])

\* lines 1166-1169
ForgetWidget(s, el, widget) ==
    [CloseWidget(IF Has(s.orphans, widget) THEN [s EXCEPT !.orphans = Del(@, widget)] ELSE s,
                 widget)
        EXCEPT !.widgets = Del(@, el.id)]

\* the part of _remove_element for a widget (lines 1159-1169)
RemoveWidget(s, el) ==
    IF ~Has(s.widgets, el.id) THEN Raise(s, "KeyError")
    ELSE ForgetWidget(
             CloseOrphans(s, IF Has(s.orphans, s.widgets[el.id])
                             THEN s.orphans[s.widgets[el.id]] ELSE {}),
             el, s.widgets[el.id])

\* line 1170
ForgetElement(s, c, key_created) ==
    IF ~Has(s.contexts[c].elements, key_created) THEN Raise(s, "KeyError")
    ELSE [s EXCEPT !.contexts[c].elements = Del(@, key_created)]

\* _RenderContext._remove_element
RemoveElement(s, el, default_key, parent_key) ==
    LET key == ResolveKey(el, default_key)
        c == s.context
        created == {k \in DOMAIN s.contexts[c].elements : s.contexts[c].elements[k].id = el.id}
        key_created == CHOOSE k \in created : TRUE
    IN  IF el.id \notin s.rc_elements THEN s
        ELSE IF created = {} THEN Raise([s EXCEPT !.rc_elements = @ \ {el.id}], "IndexError")
        ELSE Bind(Bind(RemoveChildren([s EXCEPT !.rc_elements = @ \ {el.id}],
                                      el, key, parent_key, 1),
                       LAMBDA t : IF IsFunctionEl(el)
                                  THEN RemoveFunction(t, el, key, parent_key, key_created)
                                  ELSE RemoveWidget(t, el)),
                  LAMBDA t : ForgetElement(t, c, key_created))

\* the loop of lines 961-963 over the removed keys
RemoveAll(s, elements, removed, parent_key) ==
    IF removed = {} \/ s.err # "" THEN s
    ELSE LET key_remove == First(s.order, removed)
         IN  RemoveAll(RemoveElement(s, elements[key_remove], key_remove, parent_key),
                       elements, removed \ {key_remove}, parent_key)

-----------------------------------------------------------------------------
(* Effects *)

\* effect.callable(): what it returns is s.ret_cleanup
CallEffect(s, c, i, callable) ==
    IF callable.kind = "handler"
    THEN [Observe(s, callable.node, callable.name, callable.el) EXCEPT
              !.ret_cleanup = [some |-> TRUE, kind |-> "handler", node |-> callable.node,
                               name |-> callable.name,
                               hid |-> s.nodes[callable.node].nobs + 1]]
    ELSE [(IF callable.sets
           THEN SetterCall(s, c, "0", [fn |-> TRUE, v |-> 1],
                           s.contexts[c].invoke_element.script.eq)
           ELSE IF callable.kind = "get"
           THEN get_widget(s, SavedId(s, callable.node))
           ELSE s)
             EXCEPT !.log = Append(@, Ev("run", callable.idx, c, i, "")),
                    !.ret_cleanup = [some |-> callable.returns_cleanup, kind |-> "user",
                                     node |-> 0, name |-> "", hid |-> callable.idx]]

\* effect.cleanup()
CallCleanup(s, c, i, cleanup) ==
    IF cleanup.kind = "handler"
    THEN Unobserve(s, cleanup.node, cleanup.name, cleanup.hid)
    ELSE [s EXCEPT !.log = Append(@, Ev("cleanup", cleanup.hid, c, i, ""))]

\* lines 517-518: self.cleanup = <what the callable returned>; self.executed = True
StoreCleanup(s, c, i) ==
    [s EXCEPT !.contexts[c].effects[i].cleanup = s.ret_cleanup,
              !.contexts[c].effects[i].executed = TRUE]

\* Effect.__call__ of the i-th effect of context c
RunEffect(s, c, i) ==
    IF s.contexts[c].effects[i].executed THEN s
    ELSE Bind(CallEffect(s, c, i, s.contexts[c].effects[i].callable),
              LAMBDA t : StoreCleanup(t, c, i))

\* ConsolidateNext without the comparison of the dependencies
ConsolidateNextAlways(s, c, i) ==
    LET e == s.contexts[c].effects[i]
    IN  IF ~e.has_next THEN RunEffect(s, c, i)
        ELSE RunEffect(
                 [(IF e.cleanup.some THEN CallCleanup(s, c, i, e.cleanup) ELSE s)
                     EXCEPT !.contexts[c].effects[i] =
                                NewEffect(e.next_callable, e.next_dependencies)],
                 c, i)

\* lines 966-985: after the first effect() of the turn
ConsolidateNext(s, c, i) ==
    LET e == s.contexts[c].effects[i]
    IN  IF ~e.has_next THEN RunEffect(s, c, i)
        ELSE IF ~e.next_dependencies.none /\ e.dependencies = e.next_dependencies
        THEN [s EXCEPT !.contexts[c].effects[i].has_next = FALSE,
                       !.contexts[c].effects[i].next_callable = NoCallable,
                       !.contexts[c].effects[i].next_dependencies = NoDeps]
        ELSE RunEffect(
                 [(IF e.cleanup.some THEN CallCleanup(s, c, i, e.cleanup) ELSE s)
                     EXCEPT !.contexts[c].effects[i] =
                                NewEffect(e.next_callable, e.next_dependencies)],
                 c, i)

\* one turn of the loop of lines 964-985
ConsolidateEffect(s, c, i) ==
    Bind(RunEffect(s, c, i), LAMBDA t : ConsolidateNext(t, c, i))

RECURSIVE ConsolidateEffects(_, _, _)
\* the loop of lines 964-985, from the i-th effect on
ConsolidateEffects(s, c, i) ==
    IF i > Len(s.contexts[c].effects) \/ s.err # "" THEN s
    ELSE ConsolidateEffects(ConsolidateEffect(s, c, i), c, i + 1)

RECURSIVE HandleCustomKwargs(_, _, _, _)
\* Element.handle_custom_kwargs, from the i-th listener on
HandleCustomKwargs(s, el, widget, i) ==
    IF i > Len(el.handlers) THEN s
    ELSE HandleCustomKwargs(
             use_side_effect(s, HandlerCallable(widget, el.handlers[i], el.id), NoDeps),
             el, widget, i + 1)

-----------------------------------------------------------------------------
(* Consolidation phase *)

\* the names of the plain keyword arguments of el, in the order of el.kwargs
KwargNames(el) ==
    SelectSeq(<<"description", "value">>, LAMBDA n : n \in DOMAIN el.props)
        \o (IF el.has_children THEN <<"children">> ELSE << >>)

SeqToSet(q) == {q[i] : i \in 1..Len(q)}

\* _update_widget_prop
UpdateWidgetProp(s, widget, name, is_default, el, kids) ==
    IF name = "children"
    THEN SetChildren(s, widget, IF is_default THEN << >> ELSE kids)
    ELSE SetProp(s, widget, name, IF is_default THEN DefaultOf(name) ELSE el.props[name])

RECURSIVE ResetDropped(_, _, _, _)
\* the loop of lines 1119-1121, from the j-th dropped argument on
ResetDropped(s, widget, dropped, j) ==
    IF j > Len(dropped) THEN s
    ELSE ResetDropped(UpdateWidgetProp(s, widget, dropped[j], TRUE, NoEl, << >>),
                      widget, dropped, j + 1)

RECURSIVE UpdateWidgetLoop(_, _, _, _, _, _)
\* the loop of lines 1111-1121, from the i-th keyword argument on
UpdateWidgetLoop(s, widget, el, el_prev, kids, i) ==
    LET names == KwargNames(el)
        dropped_arguments ==
            SelectSeq(KwargNames(el_prev), LAMBDA n : n \notin SeqToSet(names))
    IN  IF i > Len(names) THEN s
        ELSE UpdateWidgetLoop(
                 ResetDropped(UpdateWidgetProp(s, widget, names[i], FALSE, el, kids),
                              widget, dropped_arguments, 1),
                 widget, el, el_prev, kids, i + 1)

\* _RenderContext._update_widget
UpdateWidget(s, widget, el, el_prev, kids) ==
    UpdateWidgetLoop(s, widget, el, el_prev, kids, 1)

\* _RenderContext._create_widget: the new node is s.ret
CreateWidgetFor(s, el, kids) == CreateWidget(s, el.component, el.props, kids)

RECURSIVE Reconsolidate(_, _, _, _)
RECURSIVE ReconsolidateChildren(_, _, _, _, _, _)
RECURSIVE NextChild(_, _, _, _, _, _)
RECURSIVE ReconsolidateFunction(_, _, _, _, _)
RECURSIVE ReconsolidateWidget(_, _, _, _, _, _)

\* _visit_children_values(kwargs, key, parent_key, self._reconsolidate), from the
\* i-th child on: the list of the children's nodes is s.ret_list
ReconsolidateChildren(s, el, key, parent_key, i, acc) ==
    IF s.err # "" THEN s
    ELSE IF i > Len(el.children) THEN [s EXCEPT !.ret_list = acc]
    ELSE NextChild(Reconsolidate(s, el.children[i], ChildKey(key, i - 1), parent_key),
                   el, key, parent_key, i, acc)

\* NextChild with the value put in front of the list
NextChildInFront(s, el, key, parent_key, i, acc) ==
    ReconsolidateChildren(s, el, key, parent_key, i + 1, <<s.ret>> \o acc)

\* line 1186: the value f returned for the i-th child joins the list
NextChild(s, el, key, parent_key, i, acc) ==
    ReconsolidateChildren(s, el, key, parent_key, i + 1, Append(acc, s.ret))

\* lines 987-998: the pending elements of the child context that are left
CheckUnreferenced(s, child) ==
    LET next == s.contexts[child].elements_next
        elements == s.contexts[child].elements
        done == {k \in DOMAIN next : next[k].id \in s.rc_elements}
        s1 == [s EXCEPT !.contexts[child].elements =
                            [k \in (DOMAIN elements) \cup done |->
                                 IF k \in done THEN next[k] ELSE elements[k]],
                        !.contexts[child].elements_next =
                            [k \in (DOMAIN next) \ done |-> next[k]]]
    IN  IF done # DOMAIN next THEN Raise(s1, "UnreferencedElementInvariant") ELSE s1

\* ReconsolidateRoot with the effects of the context run before its root
\* element is consolidated
ReconsolidateRootEffectsFirst(s, el, key, parent_key, child_context) ==
    LET elements_now == DOMAIN s.contexts[child_context].elements_next
        elements == s.contexts[child_context].elements
    IN  IF s.contexts[child_context].root_element = NoEl
        THEN Raise(SetContext(s, child_context), "AssertionError")
        ELSE Bind(Bind(Bind(Bind(
                 ConsolidateEffects(SetContext(s, child_context), child_context, 1),
                 LAMBDA t : Reconsolidate(t, t.contexts[child_context].root_element, "/",
                                          join_key(parent_key, key))),
                 LAMBDA t : [t EXCEPT !.widgets = Put(@, el.id, t.ret)]),
                 LAMBDA t : RemoveAll(t, elements, (DOMAIN elements) \ elements_now,
                                      parent_key)),
                 LAMBDA t : CheckUnreferenced(t, child_context))

\* lines 949-998: inside the child context
ReconsolidateRoot(s, el, key, parent_key, child_context) ==
    LET elements_now == DOMAIN s.contexts[child_context].elements_next
        elements == s.contexts[child_context].elements
    IN  IF s.contexts[child_context].root_element = NoEl
        THEN Raise(SetContext(s, child_context), "AssertionError")
        ELSE Bind(Bind(Bind(Bind(
                 Reconsolidate(SetContext(s, child_context),
                               s.contexts[child_context].root_element, "/",
                               join_key(parent_key, key)),
                 LAMBDA t : [t EXCEPT !.widgets = Put(@, el.id, t.ret)]),
                 LAMBDA t : RemoveAll(t, elements, (DOMAIN elements) \ elements_now,
                                      parent_key)),
                 LAMBDA t : ConsolidateEffects(t, child_context, 1)),
                 LAMBDA t : CheckUnreferenced(t, child_context))

\* lines 938-998, inside the try whose finally restores self.context
ReconsolidateInContext(s, el, key, parent_key, el_prev) ==
    LET ctx == s.contexts[s.context]
        child_context == ctx.children_next[key]
    IN  IF ~Has(ctx.children_next, key) THEN Raise(s, "KeyError")
        ELSE Bind(IF Has(ctx.children, key) /\ ctx.children[key] # child_context
                  THEN IF el_prev = NoEl THEN Raise(s, "AssertionError")
                       ELSE RemoveElement(s, el_prev, "/", parent_key)
                  ELSE s,
                  LAMBDA t : ReconsolidateRoot(t, el, key, parent_key, child_context))

\* line 1003, and the value returned at line 1064
CommitContext(s, c, el, key) ==
    [s EXCEPT !.contexts[c].children = Put(@, key, s.contexts[c].children_next[key]),
              !.contexts[c].children_next = Del(@, key),
              !.ret = s.widgets[el.id]]

\* _reconsolidate, the part for a function component (lines 928-1003)
ReconsolidateFunction(s, el, key, parent_key, el_prev) ==
    Bind(SetContext(
             Bind(ReconsolidateChildren(s, el, key, parent_key, 1, << >>),
                  LAMBDA t : ReconsolidateInContext(t, el, key, parent_key, el_prev)),
             s.context),
         LAMBDA t : CommitContext(t, s.context, el, key))

\* lines 1027-1029 and 1047-1049: the node s.ret becomes the node of el
OwnWidget(s, el) ==
    HandleCustomKwargs([s EXCEPT !.widgets = Put(@, el.id, s.ret),
                                 !.contexts[s.context].owns = @ \cup {el.id}],
                       el, s.ret, 1)

\* lines 1020-1029: no previous node at this key
ConsolidateCreate(s, el, kids) ==
    IF Has(s.widgets, el.id) THEN Raise(s, "RuntimeError")
    ELSE OwnWidget(CreateWidgetFor(s, el, kids), el)

\* lines 1037-1040
SwapOwner(s, el, el_prev, widget_previous) ==
    LET c == s.context
    IN  IF el_prev.id \notin s.contexts[c].owns \cup {el.id}
        THEN Raise([s EXCEPT !.contexts[c].owns = @ \cup {el.id}], "KeyError")
        ELSE IF el_prev.id = el.id
        THEN Raise(HandleCustomKwargs(
                       [s EXCEPT !.contexts[c].owns = (@ \cup {el.id}) \ {el_prev.id}],
                       el, widget_previous, 1),
                   "AssertionError")
        ELSE HandleCustomKwargs(
                 [s EXCEPT !.contexts[c].owns = (@ \cup {el.id}) \ {el_prev.id}],
                 el, widget_previous, 1)

\* lines 1030-1040: the previous node has the same type
ConsolidateUpdate(s, el, el_prev, widget_previous, kids) ==
    SwapOwner(UpdateWidget([s EXCEPT !.widgets = Put(@, el.id, widget_previous)],
                           widget_previous, el, el_prev, kids),
              el, el_prev, widget_previous)

\* lines 1046-1049
Replace(s, el, el_prev, kids) ==
    LET c == s.context
    IN  IF el_prev.id \notin s.contexts[c].owns THEN Raise(s, "KeyError")
        ELSE OwnWidget(CreateWidgetFor([s EXCEPT !.contexts[c].owns = @ \ {el_prev.id}],
                                       el, kids),
                       el)

\* lines 1041-1049: the previous node has another type
ConsolidateReplace(s, el, el_prev, key, parent_key, kids) ==
    IF el_prev.id \notin s.contexts[s.context].owns THEN Raise(s, "AssertionError")
    ELSE Bind(RemoveElement(s, el_prev, key, parent_key),
              LAMBDA t : Replace(t, el, el_prev, kids))

\* lines 1050-1062: the nodes created as a side effect are the orphans of the node
AdoptOrphans(s, el, before) ==
    LET widget == s.widgets[el.id]
        new_orphans == (Registry(s) \ before) \ {widget}
        old_orphans == IF Has(s.orphans, widget) THEN s.orphans[widget] ELSE {}
    IN  [s EXCEPT !.orphans = Put(@, widget, old_orphans \cup new_orphans),
                  !.ret = widget]

\* lines 1016-1062: after the children
ReconsolidateNode(s, el, key, parent_key, el_prev, has_prev) ==
    LET kids == s.ret_list
        before == Registry(s)
        widget_previous == IF has_prev THEN s.widgets[el_prev.id] ELSE 0
    IN  IF has_prev /\ ~Has(s.widgets, el_prev.id) THEN Raise(s, "KeyError")
        ELSE Bind(IF widget_previous = 0 THEN ConsolidateCreate(s, el, kids)
                  ELSE IF s.nodes[widget_previous].type = el.component
                  THEN ConsolidateUpdate(s, el, el_prev, widget_previous, kids)
                  ELSE ConsolidateReplace(s, el, el_prev, key, parent_key, kids),
                  LAMBDA t : AdoptOrphans(t, el, before))

\* _reconsolidate, the part for a widget (lines 1006-1062)
ReconsolidateWidget(s, el, key, parent_key, el_prev, has_prev) ==
    Bind(ReconsolidateChildren(s, el, key, parent_key, 1, << >>),
         LAMBDA t : ReconsolidateNode(t, el, key, parent_key, el_prev, has_prev))

\* the finally of _reconsolidate (lines 1077-1089)
ReconsolidateFinally(s, c, el, el_prev, key) ==
    LET elements == (s.rc_elements \ {el_prev.id}) \cup {el.id}
        s1 == [s EXCEPT !.contexts[c].elements = Put(@, key, s.contexts[c].elements_next[key]),
                        !.contexts[c].elements_next = Del(@, key)]
    IN  IF ~Has(s.contexts[c].elements_next, key) THEN Raise(s, "KeyError")
        ELSE IF el.id \in s.rc_elements \ {el_prev.id}
        THEN Raise([s1 EXCEPT !.rc_elements = @ \ {el_prev.id}], "AssertionError")
        ELSE IF el.id \notin s.rc_elements_next
        THEN Raise([s1 EXCEPT !.rc_elements = elements], "AssertionError")
        ELSE [s1 EXCEPT !.rc_elements = elements, !.rc_elements_next = @ \ {el.id}]

\* _RenderContext._reconsolidate: the node of el is s.ret
Reconsolidate(s, el, default_key, parent_key) ==
    LET key == ResolveKey(el, default_key)
        c == s.context
        has_prev == Has(s.contexts[c].elements, key)
        el_prev == IF has_prev THEN s.contexts[c].elements[key] ELSE NoEl
    IN  IF el.id \in s.rc_elements /\ el.id # s.element.id
        THEN IF Has(s.widgets, el.id) THEN [s EXCEPT !.ret = s.widgets[el.id]]
             ELSE Raise(s, "KeyError")
        ELSE ReconsolidateFinally(
                 IF IsFunctionEl(el)
                 THEN ReconsolidateFunction(s, el, key, parent_key, el_prev)
                 ELSE ReconsolidateWidget(s, el, key, parent_key, el_prev, has_prev),
                 c, el, el_prev, key)

-----------------------------------------------------------------------------
(* _RenderContext.render and _RenderContext.close *)

Range(d) == {d[k] : k \in DOMAIN d}

\* lines 729-747: after the consolidation returned the root node s.ret
SetRoot(s, container_arg) ==
    LET widget == s.ret
    IN  IF s.rc_elements_next # {} THEN Raise(s, "ElementNotReconsolidated")
        ELSE IF s.context # context_root \/ widget \notin Range(s.widgets)
        THEN Raise(s, "AssertionError")
        ELSE IF s.last_root_widget = 0
        THEN IF container_arg # 0
             THEN SetChildren([s EXCEPT !.last_root_widget = widget], container_arg, <<widget>>)
             ELSE [s EXCEPT !.last_root_widget = widget]
        ELSE IF container_arg = 0
        THEN IF s.last_root_widget # widget THEN Raise(s, "RootNodeTypeChanged") ELSE s
        ELSE SetChildren(s, container_arg, <<widget>>)

\* lines 728-747: one consolidation of the stabilization loop
ConsolidateRoot(s, el, container_arg) ==
    IF s.err # "" THEN s
    ELSE Bind(Reconsolidate([s EXCEPT !.log = Append(@, Ev("consolidate", 0, 0, 0, ""))],
                            el, "/", ROOT_KEY),
              LAMBDA t : SetRoot(t, container_arg))

\* CountRender with the ceiling reached one re-render early
CountRenderEarly(s) ==
    IF s.context # context_root THEN Raise(s, "AssertionError")
    ELSE IF s.render_counts + 1 >= MaxRenders
    THEN Raise([s EXCEPT !.render_counts = @ + 1], "UnstableRenderLoop")
    ELSE [s EXCEPT !.render_counts = @ + 1]

\* CountRender with the ceiling one re-render higher
CountRenderLate(s) ==
    IF s.context # context_root THEN Raise(s, "AssertionError")
    ELSE IF s.render_counts + 1 > MaxRenders + 1
    THEN Raise([s EXCEPT !.render_counts = @ + 1], "UnstableRenderLoop")
    ELSE [s EXCEPT !.render_counts = @ + 1]

\* lines 716-719: after a re-render of the stabilization loop
CountRender(s) ==
    IF s.context # context_root THEN Raise(s, "AssertionError")
    ELSE IF s.render_counts + 1 > MaxRenders
    THEN Raise([s EXCEPT !.render_counts = @ + 1], "UnstableRenderLoop")
    ELSE [s EXCEPT !.render_counts = @ + 1]

\* lines 710-719: one turn of the loop  while self._state_changed
Rerender(s, el) ==
    Bind(Render([s EXCEPT !.state_changed = FALSE,
                          !.rc_elements_next = {},
                          !.log = Append(@, Ev("render", 0, 0, s.render_counts + 1, ""))],
                el, "/", ROOT_KEY),
         LAMBDA t : CountRender(t))

RECURSIVE RerenderLoop(_, _)
\* the loop  while self._state_changed  of lines 709-719; s.render_counts is the
\* local render_counts
RerenderLoop(s, el) ==
    IF s.err # "" \/ ~s.state_changed THEN s
    ELSE RerenderLoop(Rerender(s, el), el)

\* lines 749-753
SetStable(s) == [s EXCEPT !.stable = ~s.state_changed]

RECURSIVE StabilizeLoop(_, _, _)
\* the loop  while not stable  of lines 707-753; s.stable is the local stable
StabilizeLoop(s, el, container_arg) ==
    IF s.err # "" \/ s.stable THEN s
    ELSE StabilizeLoop(
             SetStable(ConsolidateRoot(RerenderLoop(s, el), el, container_arg)),
             el, container_arg)

\* lines 699-756: after the first walk of the tree
Stabilize(s, el, container_arg, main_render_phase, context_prev) ==
    IF s.err # "" THEN [s EXCEPT !.is_rendering = FALSE]
    ELSE IF ~main_render_phase
    THEN [s EXCEPT !.first_render = FALSE, !.context = context_prev]
    ELSE Bind(StabilizeLoop([s EXCEPT !.first_render = FALSE, !.render_counts = 0,
                                      !.stable = FALSE],
                            el, container_arg),
              LAMBDA t : [t EXCEPT !.is_rendering = FALSE, !.context = context_prev])

\* lines 680-698: the first walk of the tree
RenderWalk(s, el) ==
    Render([s EXCEPT !.rc_global = TRUE,
                     !.element = el,
                     !.state_changed = FALSE,
                     !.render_count = @ + 1,
                     !.is_rendering = TRUE,
                     !.context = context_root,
                     !.contexts[context_root].root_element = el,
                     !.rc_elements_next = {},
                     !.log = Append(@, Ev("render", 0, 0, 0, ""))],
           el, "/", ROOT_KEY)

\* _RenderContext.render
RenderCall(s, el, container_arg) ==
    [Stabilize(RenderWalk(s, el), el, container_arg, ~s.is_rendering, s.context)
        EXCEPT !.rc_global = FALSE]

\* CloseContainer without the checks of what is left
CloseContainerUnchecked(s) ==
    IF s.context # context_root THEN Raise(s, "AssertionError")
    ELSE IF s.container # 0
    THEN CloseWidget(CloseWidget(s, s.container), s.container + 1)
    ELSE s

\* lines 562-570: after the element was removed and the lock released
CloseContainer(s) ==
    LET s2 == IF s.container # 0
              THEN CloseWidget(CloseWidget(s, s.container), s.container + 1)
              ELSE s
    IN  IF s.rc_elements # {} THEN Raise(s2, "ResourceLeak")
        ELSE IF DOMAIN s.orphans # {} THEN Raise(s2, "ResourceLeak")
        ELSE s2

\* lines 559-561: what close does while it holds thread_lock
CloseLocked(s) ==
    Bind(RemoveElement(s, s.element, "/", ROOT_KEY),
         LAMBDA t : IF t.context # context_root THEN Raise(t, "AssertionError") ELSE t)

\* _RenderContext.close
CloseCall(s) == Bind(CloseLocked(s), LAMBDA t : CloseContainer(t))

-----------------------------------------------------------------------------
(* The programs the calls are drawn from *)

PX == [description |-> "x"]

PY == [description |-> "y", value |-> 1]

\* a render function's effect
Eff(deps, returns_cleanup) ==
    [deps |-> deps, returns_cleanup |-> returns_cleanup, sets |-> FALSE, gets |-> 0]

\* a render function's effect that calls the setter of the component's state
EffSet(deps) == [deps |-> deps, returns_cleanup |-> FALSE, sets |-> TRUE, gets |-> 0]

\* a render function's effect that calls get_widget(saved), saved being the
\* first element constructed at the place lid
EffGet(deps, lid) == [deps |-> deps, returns_cleanup |-> FALSE, sets |-> FALSE, gets |-> lid]

Script(bump, effects, rets) ==
    [bump |-> bump, effects |-> effects, rets |-> rets, eq |-> "None", hooks |-> << >>]

\* the same render function with  use_state(0, eq=eq)
WithEq(script, eq) == [script EXCEPT !.eq = eq]

\* the same render function with more hook calls after its first
WithHooks(script, hooks) == [script EXCEPT !.hooks = hooks]

\* the hook call  use_state(initial, key)
US(initial, add_value, key, unless) ==
    [op |-> "use_state", initial |-> initial, add_value |-> add_value, key |-> key,
     unless |-> unless]

\* the hook call  provide_context(key, values[state])
PC(key, values, unless) ==
    [op |-> "provide_context", key |-> key, values |-> values, unless |-> unless]

\* the pair (args, kwargs), kwargs as the list of its items
Pair(args, kwargs) == [args |-> args, kwargs |-> kwargs]

\* the hook call  use_memo(f, args, kwargs)  with the pair deps[state] and a
\* function f that returns base + state
UM(deps, base, unless) == [op |-> "use_memo", deps |-> deps, base |-> base, unless |-> unless]

\* two memo slots: the call of the first is left out when the state is 3;
\* its pair is the same for the states 0 and 1, then kwargs changes, then args
MemoHooks ==
    << UM(<<Pair(<<1>>, << >>), Pair(<<1>>, << >>), Pair(<<1>>, <<(<<"k", 1>>)>>),
            Pair(<<2>>, <<(<<"k", 1>>)>>)>>, 100, 3),
       UM(<<Pair(<< >>, << >>)>>, 200, 0 - 1) >>

\* a statement of a render function that constructs the element desc and
\* drops it
EL(desc) == [op |-> "element", desc |-> desc, unless |-> 0 - 1]

\* the hook call  use_context(key)
UC(key) == [op |-> "use_context", key |-> key, unless |-> 0 - 1]

\* the render function renders an element with another render context:
\* react_ipywidgets.render(el)
RO == [op |-> "render_other", unless |-> 0 - 1]

\* a child component that reads the context "t", after providing it itself
\* when its state is not 0
Reader(key, values) ==
    Fn(5, "G", "g",
       WithHooks(Script("none", << >>, <<Leaf(6, "Button", NoKey, PX, << >>)>>),
                 <<PC(key, values, 0), UC(key)>>),
       << >>)

\* three more slots: one whose use_state call is left out when the state is 2
\* and whose initial argument follows the state, one addressed by index after
\* it, one with an explicit key
SlotHooks == <<US(5, TRUE, NoKey, 2), US(7, FALSE, NoKey, 3), US(9, FALSE, "k", 3)>>

BtnA == Leaf(2, "Button", "a", PX, << >>)

BtnB == Leaf(3, "Button", "b", PY, << >>)

\* children reordered, then one child left with its properties dropped
ReorderRets ==
    << W(1, "VBox", NoKey, EmptyDict, << >>, <<BtnA, BtnB>>),
       W(1, "VBox", NoKey, EmptyDict, << >>, <<BtnB, BtnA>>),
       W(1, "VBox", NoKey, EmptyDict, << >>,
         <<Leaf(2, "Button", "a", EmptyDict, << >>)>>) >>

\* the type at a fixed key changes, with and without a handler
TypeRets ==
    << W(1, "VBox", NoKey, EmptyDict, << >>, <<Leaf(2, "Button", NoKey, PX, <<"value">>)>>),
       W(1, "VBox", NoKey, EmptyDict, << >>, <<Leaf(2, "Text", NoKey, PX, << >>)>>),
       W(1, "VBox", NoKey, EmptyDict, << >>, <<Leaf(2, "Button", NoKey, PY, << >>)>>) >>

\* a keyed element moves out of a container whose type changes
NestedRets ==
    << W(1, "VBox", NoKey, EmptyDict, << >>,
         <<W(4, "VBox", "p", EmptyDict, << >>, <<BtnA>>)>>),
       W(1, "VBox", NoKey, EmptyDict, << >>,
         <<Leaf(4, "Text", "p", PX, << >>), BtnA>>) >>

Inner(name, deps) ==
    Fn(5, name, "i", Script("none", <<Eff(deps, TRUE)>>, <<Leaf(6, "Button", NoKey, PX, <<"value">>)>>),
       << >>)

\* a function component mounted, removed, replaced by another component
InnerRets ==
    << W(1, "VBox", NoKey, EmptyDict, << >>, <<Inner("Inner", Deps(<<1>>))>>),
       W(1, "VBox", NoKey, EmptyDict, << >>, << >>),
       W(1, "VBox", NoKey, EmptyDict, << >>, <<Inner("Other", Deps(<<1>>))>>) >>

One == <<Leaf(1, "Button", NoKey, PX, << >>)>>

\* a second element with the key of BtnA
BtnA2 == Leaf(3, "Button", "a", PY, << >>)

\* two siblings get the same explicit key when the state is 1
DupRets ==
    << W(1, "VBox", NoKey, EmptyDict, << >>, <<BtnA, BtnB>>),
       W(1, "VBox", NoKey, EmptyDict, << >>, <<BtnA, BtnA2>>) >>

\* the key of BtnA is used again in the context of a child component
SameKeyRets ==
    << W(1, "VBox", NoKey, EmptyDict, << >>,
         <<BtnA, Fn(5, "G", "g", Script("none", << >>, <<BtnA2>>), << >>)>>) >>

\* b = Button(description="x"): the references to b are one object
Shared == Leaf(2, "Button", NoKey, PX, << >>)

\* g = G(), referenced at two depths of the tree that F returns
SharedRets ==
    << W(1, "VBox", NoKey, EmptyDict, << >>,
         << Fn(5, "G", NoKey, Script("none", << >>, <<Leaf(6, "Button", NoKey, PX, << >>)>>),
               << >>),
            W(4, "VBox", NoKey, EmptyDict, << >>,
              << Fn(5, "G", NoKey,
                    Script("none", << >>, <<Leaf(6, "Button", NoKey, PX, << >>)>>), << >>) >>) >>) >>

\* a component with effects and a listener, inside a component with effects
\* and a listener
EffectRets ==
    << W(1, "VBox", NoKey, EmptyDict, << >>,
         <<Leaf(2, "Button", NoKey, PX, <<"value">>), Inner("Inner", NoDeps)>>) >>

\* the tree returned by the first walk of a cycle holds an element more
\* than the tree of the second
ShrinkRets ==
    << W(1, "VBox", NoKey, EmptyDict, << >>, <<BtnA, BtnB>>),
       W(1, "VBox", NoKey, EmptyDict, << >>, <<BtnA>>) >>

\* two siblings with a listener each; the first is left out when the state
\* is not 0
HandlerRets ==
    << W(1, "VBox", NoKey, EmptyDict, << >>,
         <<Leaf(2, "Button", "a", PX, <<"value">>), Leaf(3, "Button", "b", PY, <<"value">>)>>),
       W(1, "VBox", NoKey, EmptyDict, << >>, <<Leaf(3, "Button", "b", PY, <<"value">>)>>) >>

RootDescs ==
    << Leaf(1, "Button", NoKey, PX, << >>),
       Leaf(1, "Button", NoKey, EmptyDict, << >>),
       Held(Leaf(7, "Button", NoKey, PX, << >>)),
       W(1, "VBox", NoKey, EmptyDict, << >>, <<BtnA, BtnB>>),
       W(1, "VBox", NoKey, EmptyDict, << >>, <<BtnB, BtnA>>),
       Fn(1, "F", NoKey, Script("none", << >>, ReorderRets), << >>),
       Fn(1, "F", NoKey, Script("none", << >>, TypeRets), << >>),
       Fn(1, "F", NoKey, Script("none", << >>, NestedRets), << >>),
       Fn(1, "F", NoKey, Script("none", << >>, InnerRets), << >>),
       Fn(1, "F", NoKey, Script("always", << >>, One), << >>),
       Fn(1, "F", NoKey, Script("once", <<Eff(Deps(<<1>>), TRUE)>>, One), << >>),
       Fn(1, "F", NoKey, Script("none", <<Eff(Deps(<<2>>), TRUE)>>, One), << >>),
       Fn(1, "F", NoKey, Script("none", <<Eff(NoDeps, FALSE)>>, One), << >>),
       Fn(1, "F", NoKey, Script("none", << >>,
                                <<W(8, "VBox", NoKey, EmptyDict, << >>, <<Arg(1)>>)>>),
          <<Held(Leaf(9, "Button", NoKey, PX, << >>))>>),
       Fn(1, "G", "k", Script("none", <<Eff(Deps(<<1>>), TRUE)>>, One), << >>),
       Fn(1, "F", "k", Script("none", <<Eff(Deps(<<1>>), TRUE)>>, One), << >>),
       Fn(1, "F", NoKey, Script("none", <<EffSet(Deps(<<1>>))>>, One), << >>),
       Fn(1, "F", NoKey, Script("none", <<EffSet(NoDeps)>>, One), << >>),
       W(1, "VBox", NoKey, EmptyDict, << >>, <<BtnA, BtnA2>>),
       Fn(1, "F", NoKey, Script("none", << >>, DupRets), << >>),
       Fn(1, "F", NoKey, Script("once", << >>, DupRets), << >>),
       Fn(1, "F", NoKey, Script("none", << >>, SameKeyRets), << >>),
       Fn(1, "F", NoKey, WithEq(Script("none", << >>, One), "mod2"), << >>),
       Fn(1, "F", NoKey, Script("same", << >>, One), << >>),
       Fn(1, "F", NoKey, WithHooks(Script("none", << >>, One), SlotHooks), << >>),
       Fn(1, "F", NoKey,
          WithHooks(Script("none", << >>,
                           <<W(1, "VBox", NoKey, EmptyDict, << >>,
                               <<Reader("t", <<"b", "b", None>>)>>)>>),
                    <<PC("t", <<"a", None>>, 0 - 1)>>),
          << >>),
       Fn(1, "F", NoKey,
          WithHooks(Script("none", << >>,
                           <<W(1, "VBox", NoKey, EmptyDict, << >>,
                               <<Reader("u", <<None>>)>>)>>),
                    <<PC("t", <<"a">>, 0 - 1)>>),
          << >>),
       Fn(1, "F", NoKey, WithHooks(Script("none", << >>, One), MemoHooks), << >>),
       Fn(1, "F", NoKey, Script("none", <<EffGet(NoDeps, 1)>>, One), << >>),
       Fn(1, "F", NoKey, Script("none", <<EffGet(NoDeps, 2)>>, TypeRets), << >>),
       W(1, "VBox", NoKey, EmptyDict, << >>, <<Leaf(2, "Button", NoKey, PX, <<"value">>)>>),
       W(1, "VBox", NoKey, EmptyDict, << >>, <<Leaf(2, "Button", NoKey, PY, <<"value">>)>>),
       Fn(1, "F", "k", Script("once", << >>, One), << >>),
       W(1, "VBox", NoKey, EmptyDict, << >>, <<Shared, Shared>>),
       W(1, "VBox", NoKey, EmptyDict, << >>, <<BtnA, BtnA>>),
       Fn(1, "F", NoKey, Script("none", << >>, SharedRets), << >>),
       Fn(1, "F", NoKey, Script("none", <<Eff(NoDeps, TRUE), Eff(Deps(<<1>>), FALSE)>>,
                                EffectRets), << >>),
       Fn(1, "F", NoKey,
          WithHooks(Script("none", << >>, One),
                    <<EL(W(8, "VBox", NoKey, EmptyDict, << >>,
                           <<Leaf(9, "Button", NoKey, PY, << >>)>>))>>),
          << >>),
       Fn(1, "F", NoKey, Script("once", << >>, ShrinkRets), << >>),
       W(1, "VBox", NoKey, EmptyDict, << >>, <<BtnA>>),
       Leaf(1, "Button", "p", PX, << >>),
       Leaf(1, "Button", "q", PX, << >>),
       Fn(1, "F", NoKey, Script("none", << >>, ShrinkRets), << >>),
       Fn(1, "F", NoKey, Script("none", << >>, HandlerRets), << >>),
       Fn(1, "F", NoKey, WithHooks(Script("none", << >>, One), <<RO, US(5, FALSE, NoKey, 3)>>),
          << >>),
       Fn(1, "F", NoKey,
          WithHooks(Script("none", << >>,
                           <<W(1, "VBox", NoKey, EmptyDict, << >>,
                               <<Leaf(2, "Button", NoKey, PX, <<"value">>)>>)>>),
                    <<RO>>),
          << >>) >>

\* a program passes to render() the elements of some of these expressions
Programs ==
    << {1, 2, 3}, {4, 5}, {6}, {7}, {8}, {9}, {10}, {11, 12, 13}, {14}, {15, 16}, {17}, {18},
       {4, 19}, {20}, {21}, {22}, {23, 24}, {25}, {26}, {27}, {28}, {29}, {30}, {31, 32}, {15, 33}, {34}, {35}, {36},
       {37}, {38}, {39}, {4, 40}, {41, 42}, {43}, {44}, {45}, {46} >>

\* the values a setter is called with from outside a pass
SetValues == {1, 2}

\* the increments of the updaters  lambda old: old + v  a setter is called with
Updaters == {0, 1}

\* the arguments a setter is called with from outside a pass
SetArgs ==
    {[fn |-> FALSE, v |-> x] : x \in SetValues} \cup {[fn |-> TRUE, v |-> x] : x \in Updaters}

-----------------------------------------------------------------------------
(* The state machine *)

\* the state, as the record the operators thread
S ==
    [element |-> element, container |-> container, first_render |-> first_render,
     context |-> context, render_count |-> render_count,
     last_root_widget |-> last_root_widget, is_rendering |-> is_rendering,
     state_changed |-> state_changed, widgets |-> widgets,
     rc_elements_next |-> rc_elements_next, rc_elements |-> rc_elements,
     orphans |-> orphans, old_element_ids |-> old_element_ids, contexts |-> contexts,
     nodes |-> nodes, rc_global |-> rc_global, gen |-> gen, err |-> "", log |-> << >>,
     render_counts |-> 0, hook_log |-> << >>, stable |-> FALSE, order |-> "up",
     ret |-> 0, ret_el |-> NoEl, ret_list |-> << >>, ret_cleanup |-> NoCleanup]

Commit(r) ==
    /\ element' = r.element
    /\ container' = r.container
    /\ first_render' = r.first_render
    /\ context' = r.context
    /\ render_count' = r.render_count
    /\ last_root_widget' = r.last_root_widget
    /\ is_rendering' = r.is_rendering
    /\ state_changed' = r.state_changed
    /\ widgets' = r.widgets
    /\ rc_elements_next' = r.rc_elements_next
    /\ rc_elements' = r.rc_elements
    /\ orphans' = r.orphans
    /\ old_element_ids' = r.old_element_ids
    /\ contexts' = r.contexts
    /\ nodes' = r.nodes
    /\ rc_global' = r.rc_global
    /\ gen' = r.gen
    /\ err' = r.err
    /\ log' = r.log
    /\ render_counts' = r.render_counts
    /\ hook_log' = r.hook_log

Call(op, root, cont, ctx, key, value) ==
    [op |-> op, root |-> root, container |-> cont, ctx |-> ctx, key |-> key, value |-> value,
     thread |-> 0]

\* render(): no call yet
NoFrame == [el |-> NoEl, main_render_phase |-> FALSE, context_prev |-> 0]

\* _RenderContext.__init__(element, container), container a new VBox or None
Init ==
    /\ \E p \in DOMAIN Programs :
          /\ program = p
          /\ \E i \in Programs[p] : element = Instantiate(RootDescs[i], 1, << >>)
    /\ \E has_container \in BOOLEAN :
          /\ container = IF has_container THEN 1 ELSE 0
          /\ nodes = IF has_container
                     THEN <<NewNode("VBox", EmptyDict, << >>),
                            NewNode("Layout", EmptyDict, << >>)>>
                     ELSE << >>
    /\ first_render = TRUE
    /\ context = context_root
    /\ render_count = 0
    /\ last_root_widget = 0
    /\ is_rendering = FALSE
    /\ state_changed = FALSE
    /\ widgets = EmptyDict
    /\ rc_elements_next = {}
    /\ rc_elements = {}
    /\ orphans = EmptyDict
    /\ old_element_ids = {}
    /\ contexts = <<NewContext(0)>>
    /\ rc_global = FALSE
    /\ gen = 1
    /\ err = ""
    /\ log = << >>
    /\ calls = 0
    /\ last_call = Call("init", 0, 0, 0, NoKey, 0)
    /\ render_counts = 0
    /\ hook_log = << >>
    /\ thread_lock = 0
    /\ thread_pc = [t \in Threads |-> "idle"]
    /\ thread_frame = [t \in Threads |-> NoFrame]
    /\ container_adders = << >>
    /\ block_elements = << >>

RECURSIVE MountedFrom(_, _)
\* the contexts reached from the contexts of X through children
MountedFrom(X, n) ==
    IF n = 0 \/ UNION {Range(contexts[c].children) : c \in X} \subseteq X THEN X
    ELSE MountedFrom(X \cup UNION {Range(contexts[c].children) : c \in X}, n - 1)

\* the contexts of the committed tree
Mounted == MountedFrom({context_root}, Len(contexts))

\* rc.render(element) or rc.render(element, rc.container) with a new element
\* (or a held one) of the program
RenderNew ==
    \E i \in Programs[program], container_arg \in {0, container}, order \in Orders :
        /\ calls < MaxCalls
        /\ Commit(RenderCall([S EXCEPT !.gen = gen + 1, !.order = order],
                             Instantiate(RootDescs[i], gen + 1, << >>), container_arg))
        /\ calls' = calls + 1
        /\ last_call' = Call("render", i, container_arg, 0, NoKey, 0)
        /\ UNCHANGED <<program, bvars, tvars>>

\* rc.render(rc.element): the element of the last call, the same object
RenderSame ==
    \E container_arg \in {0, container}, order \in Orders :
        /\ calls < MaxCalls
        /\ Commit(RenderCall([S EXCEPT !.order = order], element, container_arg))
        /\ calls' = calls + 1
        /\ last_call' = Call("render", 0, container_arg, 0, NoKey, 0)
        /\ UNCHANGED <<program, bvars, tvars>>

\* the eq the setter of slot key of the component of context c was made with
EqOfSlot(c, key) == IF key = "0" THEN contexts[c].invoke_element.script.eq ELSE "None"

\* a setter of a mounted component, called from outside a pass (an event)
SetState ==
    \E c \in Mounted, upd \in SetArgs, order \in Orders :
        \E key \in DOMAIN contexts[c].state :
            /\ calls < MaxCalls
            /\ Commit(SetterCall([S EXCEPT !.order = order], c, key, upd, EqOfSlot(c, key)))
            /\ calls' = calls + 1
            /\ last_call' = Call("set", 0, 0, c, key, upd)
        /\ UNCHANGED <<program, bvars, tvars>>

\* the hook h called by the program
ModuleHook(s, h) ==
    CASE h = "use_state" -> use_state(s, 0, NoKey)
      [] h = "use_side_effect" -> use_side_effect(s, UserCallable(1, FALSE, FALSE), NoDeps)
      [] h = "use_context" -> use_context(s, "t")
      [] h = "provide_context" -> provide_context(s, "t", "a")
      [] h = "use_memo" -> use_memo(s, Pair(<< >>, << >>), 0)
      [] h = "get_widget" -> get_widget(s, s.element.id)

\* the hooks a program calls from outside a render function or effect
OutsideHooks ==
    {"use_state", "use_side_effect", "use_context", "provide_context", "use_memo", "get_widget"}

\* a hook called from outside every render() call
HookOutside ==
    \E h \in OutsideHooks :
        /\ calls < MaxCalls
        /\ Commit(ModuleHook(S, h))
        /\ calls' = calls + 1
        /\ last_call' = Call("hook", 0, 0, 0, NoKey, 0)
        /\ UNCHANGED <<program, bvars, tvars>>

\* rc.close()
Close ==
    \E order \in Orders :
        /\ calls < MaxCalls
        /\ Commit(CloseCall([S EXCEPT !.order = order]))
        /\ calls' = calls + 1
        /\ last_call' = Call("close", 0, 0, 0, NoKey, 0)
        /\ UNCHANGED <<program, bvars, tvars>>

Next == RenderNew \/ RenderSame \/ SetState \/ Close \/ HookOutside

Spec == Init /\ [][Next]_vars

-----------------------------------------------------------------------------
(* The program with threads: every thread calls render(), close() and     *)
(* setters of the one render context.  A call is a sequence of steps:      *)
(* reaching the  with self.thread_lock , acquiring the lock, the parts of  *)
(* the block under the lock (the first walk, the stabilization loop, the   *)
(* end of the block, where the lock is released, by return or by raise),   *)
(* and for close() what follows the block.  A setter is one step up to its *)
(* test of _is_rendering, followed by a render() call when it makes one.   *)

\* what the calls read and write
objvars == <<element, container, first_render, context, render_count, last_root_widget,
             is_rendering, state_changed, widgets, rc_elements_next, rc_elements, orphans,
             old_element_ids, contexts, nodes, rc_global, gen, err, log, render_counts,
             hook_log>>

Goto(t, loc) == thread_pc' = [thread_pc EXCEPT ![t] = loc]

\* the call, made by thread t
ThreadCall(t, call) == [call EXCEPT !.thread = t]

\* the arguments setters are called with by the threads
ThreadSetArgs == {[fn |-> FALSE, v |-> 1], [fn |-> TRUE, v |-> 1]}

\* thread t calls rc.render(element) with a new element: line 679 is reached
ThreadCallRender(t) ==
    /\ thread_pc[t] = "idle"
    /\ calls < MaxCalls
    /\ Goto(t, "render_wait")
    /\ thread_frame' = [thread_frame EXCEPT ![t] = NoFrame]
    /\ calls' = calls + 1
    /\ UNCHANGED <<objvars, last_call, program, bvars, thread_lock>>

\* thread t calls rc.close(): line 559 is reached
ThreadCallClose(t) ==
    /\ thread_pc[t] = "idle"
    /\ calls < MaxCalls
    /\ Goto(t, "close_wait")
    /\ calls' = calls + 1
    /\ UNCHANGED <<objvars, last_call, program, bvars, thread_lock, thread_frame>>

\* thread t calls the setter of a slot of a mounted component: lines 632-645;
\* at line 646 it calls self.render(self.element, self.container)
ThreadSet(t) ==
    \E c \in Mounted, upd \in ThreadSetArgs :
        \E key \in DOMAIN contexts[c].state :
            /\ thread_pc[t] = "idle"
            /\ calls < MaxCalls
            /\ Commit(SetterWrite(S, c, key, upd, EqOfSlot(c, key)))
            /\ Goto(t, IF ShouldUpdate(S, c, key, upd, EqOfSlot(c, key)) /\ ~is_rendering
                       THEN "render_wait" ELSE "idle")
            /\ thread_frame' = [thread_frame EXCEPT ![t] = [NoFrame EXCEPT !.el = element]]
            /\ calls' = calls + 1
            /\ last_call' = ThreadCall(t, Call("set", 0, 0, c, key, upd))
            /\ UNCHANGED <<program, bvars, thread_lock>>

\* threading.Lock.__enter__ at line 679 or 559: t goes on when the lock is free
ThreadAcquire(t) ==
    /\ thread_pc[t] \in {"render_wait", "close_wait"}
    /\ thread_lock = 0
    /\ thread_lock' = t
    /\ Goto(t, IF thread_pc[t] = "render_wait" THEN "render_in" ELSE "close_in")
    /\ UNCHANGED <<objvars, calls, last_call, program, bvars, thread_frame>>

\* the end of the block of render() when the walk or the loop raised: the
\* finally of lines 781-782 and the release of the lock
ThreadRaise(t, r) ==
    /\ Commit([r EXCEPT !.rc_global = FALSE])
    /\ thread_lock' = 0
    /\ Goto(t, "idle")
    /\ thread_frame' = [thread_frame EXCEPT ![t] = NoFrame]

\* the walk r of thread t returned or raised (lines 699-702)
ThreadWalked(t, r) ==
    IF r.err # ""
    THEN ThreadRaise(t, [r EXCEPT !.is_rendering = FALSE])
    ELSE /\ Commit(r)
         /\ Goto(t, "render_loop")
         /\ thread_frame' = [thread_frame EXCEPT ![t] =
                                 [el |-> r.element, main_render_phase |-> ~is_rendering,
                                  context_prev |-> context]]
         /\ UNCHANGED thread_lock

\* lines 680-702 under the lock: the first walk
ThreadRenderWalk(t) ==
    \E i \in Programs[program], order \in Orders :
        /\ thread_pc[t] = "render_in"
        /\ IF thread_frame[t].el = NoEl
           THEN ThreadWalked(t, RenderWalk([S EXCEPT !.gen = gen + 1, !.order = order],
                                           Instantiate(RootDescs[i], gen + 1, << >>)))
           ELSE ThreadWalked(t, RenderWalk([S EXCEPT !.order = order], thread_frame[t].el))
        /\ last_call' = ThreadCall(t, Call("render", IF thread_frame[t].el = NoEl THEN i ELSE 0,
                                           container, 0, NoKey, 0))
        /\ UNCHANGED <<calls, program, bvars>>

\* the loop r of thread t returned or raised
ThreadLooped(t, r) ==
    IF r.err # ""
    THEN ThreadRaise(t, r)
    ELSE /\ Commit(r)
         /\ Goto(t, "render_end")
         /\ UNCHANGED <<thread_lock, thread_frame>>

\* lines 704-753 under the lock: the stabilization loop
ThreadRenderLoop(t) ==
    \E order \in Orders :
        /\ thread_pc[t] = "render_loop"
        /\ IF thread_frame[t].main_render_phase
           THEN ThreadLooped(t, StabilizeLoop([S EXCEPT !.first_render = FALSE,
                                                       !.render_counts = 0,
                                                       !.stable = FALSE, !.order = order],
                                              thread_frame[t].el, container))
           ELSE ThreadLooped(t, [S EXCEPT !.first_render = FALSE])
        /\ last_call' = ThreadCall(t, Call("loop", 0, container, 0, NoKey, 0))
        /\ UNCHANGED <<calls, program, bvars>>

\* lines 755-756 and 781-783: the end of the block and the release of the lock
ThreadRenderEnd(t) ==
    /\ thread_pc[t] = "render_end"
    /\ Commit([S EXCEPT !.is_rendering = IF thread_frame[t].main_render_phase
                                         THEN FALSE ELSE is_rendering,
                        !.context = thread_frame[t].context_prev,
                        !.rc_global = FALSE])
    /\ thread_lock' = 0
    /\ Goto(t, "idle")
    /\ thread_frame' = [thread_frame EXCEPT ![t] = NoFrame]
    /\ last_call' = ThreadCall(t, Call("end", 0, container, 0, NoKey, 0))
    /\ UNCHANGED <<calls, program, bvars>>

\* lines 560-561 under the lock, and the release of the lock
ThreadCloseLocked(t) ==
    \E order \in Orders :
        /\ thread_pc[t] = "close_in"
        /\ Commit(CloseLocked([S EXCEPT !.order = order]))
        /\ thread_lock' = 0
        /\ Goto(t, IF err' = "" THEN "close_tail" ELSE "idle")
        /\ last_call' = ThreadCall(t, Call("close", 0, 0, 0, NoKey, 0))
        /\ UNCHANGED <<calls, program, bvars, thread_frame>>

\* lines 562-570 of close()
ThreadCloseContainer(t) ==
    /\ thread_pc[t] = "close_tail"
    /\ Commit(CloseContainer(S))
    /\ Goto(t, "idle")
    /\ last_call' = ThreadCall(t, Call("close", 0, 1, 0, NoKey, 0))
    /\ UNCHANGED <<calls, program, bvars, thread_lock, thread_frame>>

NextThreads ==
    \E t \in Threads :
        \/ ThreadCallRender(t)
        \/ ThreadCallClose(t)
        \/ ThreadSet(t)
        \/ ThreadAcquire(t)
        \/ ThreadRenderWalk(t)
        \/ ThreadRenderLoop(t)
        \/ ThreadRenderEnd(t)
        \/ ThreadCloseLocked(t)
        \/ ThreadCloseContainer(t)

SpecThreads == Init /\ [][NextThreads]_vars

\* thread t is inside a call and can go on: it is under the lock, or after
\* the block of close(), or waits for a lock that is free
Runnable(t) ==
    \/ thread_pc[t] \in {"render_in", "render_loop", "render_end", "close_in", "close_tail"}
    \/ thread_pc[t] \in {"render_wait", "close_wait"} /\ thread_lock = 0

\* thread t goes on to the next position of the call it is in (ThreadAcquire,
\* ThreadRenderWalk, ThreadRenderLoop, ThreadRenderEnd, ThreadCloseLocked or
\* ThreadCloseContainer)
ThreadRun(t) ==
    /\ Runnable(t)
    /\ \E loc \in {"idle", "render_loop", "render_end", "render_in", "close_in",
                    "close_tail"} \ {thread_pc[t]} :
           thread_pc' = [thread_pc EXCEPT ![t] = loc]

\* the threads under a scheduler that lets every thread run: a thread inside
\* a call goes on whenever it can (the lock is a threading.Lock, and every
\* holder releases it at the end of its block); whether a thread makes
\* another call is up to the program
SpecThreadsFair == SpecThreads /\ \A t \in Threads : WF_thread_pc(ThreadRun(t))

-----------------------------------------------------------------------------
(* Nesting blocks: the statements of one invocation of a render function   *)
(* that constructs elements and opens and leaves blocks  with el: ... .    *)
(* block_elements holds the elements constructed so far, an element being  *)
(* named by its index; the keyword arguments of an element are a function  *)
(* from names to values, a value being an element, a list or a dict of     *)
(* values, or something else.                                              *)

MaxElements == 4

MaxAdders == 2

\* the value that is the element i
ElV(i) == [kind |-> "el", ref |-> i, items |-> << >>]

\* a list (or tuple) of values
ListV(items) == [kind |-> "list", ref |-> 0, items |-> items]

\* a dict with these values
DictV(items) == [kind |-> "dict", ref |-> 0, items |-> items]

\* the keyword arguments element constructors are called with, e1 and e2
\* being elements constructed before
Kwargs(e1, e2) ==
    { EmptyDict,
      [children |-> ListV(<<ElV(e1)>>)],
      [children |-> ListV(<<ElV(e1), ElV(e2)>>)],
      [content |-> ElV(e1)],
      [content |-> DictV(<<ElV(e1)>>)],
      [content |-> ListV(<<ListV(<<ElV(e1)>>)>>)],
      [content |-> DictV(<<ListV(<<ElV(e1)>>)>>)] }

RECURSIVE find_children(_, _)
\* find_children(el), el the element i of els
find_children(els, i) ==
    UNION { IF els[i].kwargs[n].kind = "el" THEN {els[i].kwargs[n].ref}
            ELSE UNION { IF els[i].kwargs[n].items[k].kind = "el"
                         THEN {els[i].kwargs[n].items[k].ref}
                                  \cup find_children(els, els[i].kwargs[n].items[k].ref)
                         ELSE {} : k \in DOMAIN els[i].kwargs[n].items }
            : n \in DOMAIN els[i].kwargs }

RECURSIVE DeepChildren(_, _)
\* the elements found in the value v at every depth of lists and dicts, and
\* in the arguments of these elements
DeepChildren(els, v) ==
    IF v.kind = "el"
    THEN {v.ref} \cup UNION {DeepChildren(els, els[v.ref].kwargs[n]) :
                                 n \in DOMAIN els[v.ref].kwargs}
    ELSE UNION {DeepChildren(els, v.items[k]) : k \in DOMAIN v.items}

\* find_children with every depth of lists and dicts searched
find_children_deep(els, i) ==
    UNION {DeepChildren(els, els[i].kwargs[n]) : n \in DOMAIN els[i].kwargs}

\* ContainerAdder.__init__(el, "children")
ContainerAdder(el) == [el |-> el, created |-> << >>]

\* the elements with an open block
Entered == {container_adders[k].el : k \in DOMAIN container_adders}

\* ContainerAdder.add, on the innermost open block if there is one
Add(adders, i) ==
    IF adders = << >> THEN adders
    ELSE [adders EXCEPT ![Len(adders)] = [el |-> @.el, created |-> Append(@.created, i)]]

\* ContainerAdder.assign: the new keyword arguments of the element ca.el
Assign(els, ca) ==
    LET children == UNION {find_children(els, ca.created[k]) : k \in DOMAIN ca.created}
        top_level == SelectSeq(ca.created, LAMBDA k : k \notin children)
        kwargs == els[ca.el].kwargs
        before == IF Has(kwargs, "children") THEN kwargs["children"].items ELSE << >>
    IN  Put(kwargs, "children",
            ListV(before \o [k \in DOMAIN top_level |-> ElV(top_level[k])]))

\* Element.__init__ (lines 104-115): the render function constructs an
\* element whose arguments hold elements constructed before, none of them
\* with an open block
Construct ==
    \E e1, e2 \in (DOMAIN block_elements \ Entered) \cup {0} :
        \E kwargs \in Kwargs(e1, e2) :
            /\ Len(block_elements) < MaxElements
            /\ e1 # 0 \/ kwargs = EmptyDict
            /\ e2 # 0 \/ kwargs \in Kwargs(e1, e1)
            /\ e1 <= e2 \/ kwargs \in Kwargs(e1, e1)
            /\ block_elements' = Append(block_elements, [kwargs |-> kwargs])
            /\ container_adders' = Add(container_adders, Len(block_elements) + 1)
            /\ UNCHANGED <<objvars, calls, last_call, program, tvars>>

\* Element.__enter__ (lines 188-194):  with el:  for an element without an
\* open block that no element holds in its arguments
Enter ==
    \E i \in DOMAIN block_elements \ Entered :
        /\ Len(container_adders) < MaxAdders
        /\ \A j \in DOMAIN block_elements : i \notin find_children_deep(block_elements, j)
        /\ container_adders' = Append(container_adders, ContainerAdder(i))
        /\ UNCHANGED <<objvars, calls, last_call, program, tvars, block_elements>>

\* Element.__exit__ (lines 196-202): the innermost block is left
Exit ==
    /\ container_adders # << >>
    /\ container_adders' = SubSeq(container_adders, 1, Len(container_adders) - 1)
    /\ block_elements' =
           [block_elements EXCEPT ![container_adders[Len(container_adders)].el] =
                [kwargs |-> Assign(block_elements, container_adders[Len(container_adders)])]]
    /\ UNCHANGED <<objvars, calls, last_call, program, tvars>>

\* the render context of the first program, inside a render function
InitBlock ==
    Init /\ program = 1 /\ container = 0 /\ element = Instantiate(RootDescs[1], 1, << >>)

NextBlock == Construct \/ Enter \/ Exit

SpecBlock == InitBlock /\ [][NextBlock]_vars


-----------------------------------------------------------------------------
(* Properties *)

\* the events of the last call with operation op
Events(op) == {j \in DOMAIN log : log[j].op = op}

\* el is an element of a function component whose render function changes its
\* state on every invocation
AlwaysChanges(el) == IsFunctionEl(el) /\ el.script.bump = "always"

\* C1: a render() call that starts a cycle (no pass in flight) on a component
\* whose render function changes its state on every invocation raises
\* UnstableRenderLoop at the 51st stabilization re-render: the call made the
\* first walk and 51 re-renders, and nothing else, no consolidation.
C1_UnstableRenderLoop ==
    [][(last_call'.op = "render" /\ AlwaysChanges(element') /\ ~is_rendering)
           => /\ err' = "UnstableRenderLoop"
              /\ render_counts' = MaxRenders + 1
              /\ Len(log') = MaxRenders + 2
              /\ \A j \in DOMAIN log' : log'[j].op = "render"]_vars

\* C1: a cycle ended by the ceiling
C1_Witness ==
    /\ last_call.op = "render"
    /\ AlwaysChanges(element)
    /\ err = "UnstableRenderLoop"
    /\ render_counts = MaxRenders + 1
    /\ Events("consolidate") = {}

\* the context of the root element el, a function-component element, in the
\* contexts cs
RootContext(cs, el) == cs[context_root].children[ResolveKey(el, "/")]

\* the runs and cleanups of the effects of slot i of context c in the events lg
SlotEvents(lg, c, i) ==
    SelectSeq(lg, LAMBDA e : e.ctx = c /\ e.slot = i /\ e.op \in {"run", "cleanup"})

Count(q, op) == Cardinality({j \in DOMAIN q : q[j].op = op})

\* before the call, slot i of context c held an executed effect
HadExecuted(c, i) ==
    c <= Len(contexts) /\ i <= Len(contexts[c].effects) /\ contexts[c].effects[i].executed

\* before the call, the executed effect of slot i of context c had a cleanup
HadCleanup(c, i) == HadExecuted(c, i) /\ contexts[c].effects[i].cleanup.some

\* the call whose events are q, with k consolidations, registered in slot i of
\* context c an effect with the dependencies d that returns a cleanup iff r
EffectPass(q, k, c, i, d, r) ==
    /\ (HadExecuted(c, i) /\ ~d.none /\ contexts[c].effects[i].dependencies = d)
          => q = << >>
    /\ (~d.none /\ ~(HadExecuted(c, i) /\ contexts[c].effects[i].dependencies = d))
          => /\ Count(q, "run") = 1
             /\ Count(q, "cleanup") = IF HadCleanup(c, i) THEN 1 ELSE 0
    /\ d.none
          => /\ Count(q, "run") = k
             /\ Count(q, "cleanup") =
                    (IF HadCleanup(c, i) THEN 1 ELSE 0) + (IF r THEN k - 1 ELSE 0)
    /\ \A j \in DOMAIN q : q[j].op = "cleanup" => j < Len(q) /\ q[j + 1].op = "run"
    /\ q # << >> => (q[1].op = "cleanup" <=> HadCleanup(c, i))

\* C2: in every successful call that makes a pass over a root function
\* component registering an effect in its first slot: when the slot held an
\* executed effect with the same non-null dependencies, neither a callable nor
\* a cleanup of the slot runs; when the dependencies differ (or no effect was
\* executed yet) the cleanup of the previous effect, if it has one, runs once
\* and then the new callable runs once; with null dependencies that happens
\* in each consolidation of the call.
C2_EffectLifecycle ==
    [][(/\ last_call'.op \in {"render", "set"}
        /\ err' = ""
        /\ Events("consolidate")' # {}
        /\ IsFunctionEl(element')
        /\ element'.script.effects # << >>)
           => EffectPass(SlotEvents(log', RootContext(contexts', element'), 1),
                         Cardinality(Events("consolidate")'),
                         RootContext(contexts', element'), 1,
                         element'.script.effects[1].deps,
                         element'.script.effects[1].returns_cleanup)]_vars

\* C2: a later pass registered the effect with the dependencies of the executed
\* one, and nothing ran
C2_Witness ==
    /\ last_call.op = "render"
    /\ err = ""
    /\ render_count >= 3
    /\ Events("consolidate") # {}
    /\ IsFunctionEl(element)
    /\ element.script.effects # << >>
    /\ ~element.script.effects[1].deps.none
    /\ contexts[RootContext(contexts, element)].effects[1].executed
    /\ contexts[RootContext(contexts, element)].effects[1].dependencies =
           element.script.effects[1].deps
    /\ SlotEvents(log, RootContext(contexts, element), 1) = << >>

\* the cleanup cl of slot i of context c ran among the first n events of lg
CleanupRan(lg, n, c, i, cl) ==
    \E m \in 1..n :
        IF cl.kind = "handler"
        THEN lg[m].op = "unobserve" /\ lg[m].node = cl.node /\ lg[m].name = cl.name
        ELSE lg[m].op = "cleanup" /\ lg[m].ctx = c /\ lg[m].slot = i

\* C3: whenever a call removes a function-component element and discards its
\* context, the cleanup of every effect of that context that was executed (and
\* returned a cleanup) has run in that call before the context is discarded.
C3_CleanupBeforeDiscard ==
    [][\A j \in DOMAIN log' :
           (log'[j].op = "discard" /\ log'[j].ctx <= Len(contexts))
               => \A i \in DOMAIN contexts[log'[j].ctx].effects :
                      (/\ contexts[log'[j].ctx].effects[i].executed
                       /\ contexts[log'[j].ctx].effects[i].cleanup.some)
                          => CleanupRan(log', j - 1, log'[j].ctx, i,
                                        contexts[log'[j].ctx].effects[i].cleanup)]_vars

\* the keys of context c that hold a native element of the same node type
\* before and after the call
KeptKeys(c) ==
    {k \in DOMAIN contexts[c].elements \cap DOMAIN contexts'[c].elements :
        /\ IsWidgetEl(contexts[c].elements[k])
        /\ IsWidgetEl(contexts'[c].elements[k])
        /\ contexts[c].elements[k].component = contexts'[c].elements[k].component}

\* the call kept the node of the element old for the element new
SameNode(old, new) ==
    /\ Has(widgets, old.id)
    /\ Has(widgets', new.id)
    /\ widgets'[new.id] = widgets[old.id]
    /\ ~nodes'[widgets[old.id]].closed
    /\ \A j \in DOMAIN log' : ~(log'[j].op = "close" /\ log'[j].node = widgets[old.id])

\* C4: a successful pass that follows a successful call keeps, for every key
\* of every context that held a native element before and holds one of the
\* same node type after, the node: the new element maps to the node of the
\* previous one and that node was not closed.
C4_SameKeySameNode ==
    [][(/\ last_call'.op \in {"render", "set"}
        /\ err = ""
        /\ err' = ""
        /\ Events("consolidate")' # {})
           => \A c \in DOMAIN contexts : \A k \in KeptKeys(c) :
                  SameNode(contexts[c].elements[k], contexts'[c].elements[k])]_vars

\* the call updated in place the node of old for the element new
UpdatedInPlace(old, new) ==
    /\ new.id # old.id
    /\ Has(widgets, old.id)
    /\ Has(widgets', new.id)
    /\ widgets'[new.id] = widgets[old.id]

\* C5: after a successful pass that updated a node in place, every plain
\* property that the previous element at the key supplied and the new element
\* does not supply has the declared default on the node, also when the new
\* element supplies no property at all.
C5_DroppedReset ==
    [][(/\ last_call'.op \in {"render", "set"}
        /\ err = ""
        /\ err' = ""
        /\ Events("consolidate")' # {})
           => \A c \in DOMAIN contexts : \A k \in KeptKeys(c) :
                  UpdatedInPlace(contexts[c].elements[k], contexts'[c].elements[k])
                      => \A name \in (DOMAIN contexts[c].elements[k].props)
                                         \ (DOMAIN contexts'[c].elements[k].props) :
                             nodes'[widgets[contexts[c].elements[k].id]].props[name]
                                 = DefaultOf(name)]_vars

RECURSIVE Describe(_)
\* the expression that made the element el: el without the identities
Describe(el) ==
    [component |-> el.component, key |-> el.key, props |-> el.props,
     handlers |-> el.handlers, script |-> el.script,
     children |-> [i \in DOMAIN el.children |-> Describe(el.children[i])]]

\* the hook state of every context
HookState == [c \in DOMAIN contexts |-> contexts[c].state]

\* the events of the last call that create, write or close a node of the tree
NodeOperations ==
    {j \in DOMAIN log : /\ log[j].op \in {"create", "set", "close"}
                        /\ log[j].node # container}

\* C6: a render() call that follows a successful pass, is given a root
\* element of the same description as the committed one and leaves every
\* hook state as it was, succeeds and neither creates, writes nor closes
\* a node of the tree.
C6_Idempotent ==
    [][(/\ last_call'.op = "render"
        /\ last_call.op \in {"render", "set"}
        /\ err = ""
        /\ element.id \in rc_elements
        /\ Describe(element') = Describe(element)
        /\ HookState' = HookState)
           => (err' = "" /\ NodeOperations' = {})]_vars

\* C7: a pass over the committed root element, the same object, that follows
\* a successful pass (render(rc.element) again, or a re-render started by a
\* setter) completes without error, and every element instance that is
\* committed before and after keeps its node.
C7_SameInstanceAgain ==
    [][(/\ last_call'.op \in {"render", "set"}
        /\ last_call.op \in {"render", "set"}
        /\ err = ""
        /\ log' # << >>
        /\ element.id \in rc_elements
        /\ element'.id = element.id)
           => /\ err' = ""
              /\ \A e \in (rc_elements \cap rc_elements') \cap DOMAIN widgets :
                     Has(widgets', e) /\ widgets'[e] = widgets[e]]_vars

\* the keys of the children of the element el
ChildKeys(el) == [i \in DOMAIN el.children |-> el.children[i].key]

\* old and new are container elements with two keyed native children of the
\* same node types, in opposite orders
Swapped(old, new) ==
    /\ Len(old.children) = 2
    /\ Len(new.children) = 2
    /\ NoKey \notin SeqToSet(ChildKeys(old))
    /\ ChildKeys(old)[1] # ChildKeys(old)[2]
    /\ ChildKeys(new) = <<ChildKeys(old)[2], ChildKeys(old)[1]>>
    /\ \A i \in 1..2 : /\ IsWidgetEl(old.children[i])
                        /\ IsWidgetEl(new.children[3 - i])
                        /\ old.children[i].component = new.children[3 - i].component

\* C8: when a successful pass gives a container, at a key that held a
\* container of the same type with the children [A(key a), B(key b)], the
\* children [B(key b), A(key a)], the nodes of both children are kept (not
\* closed, and the new elements map to them), no node is created, and the
\* child list of the container node is [node of b, node of a].
C8_Reorder ==
    [][(/\ last_call'.op \in {"render", "set"}
        /\ err = ""
        /\ err' = ""
        /\ Events("consolidate")' # {})
           => \A c \in DOMAIN contexts : \A k \in KeptKeys(c) :
                  Swapped(contexts[c].elements[k], contexts'[c].elements[k])
                      => /\ \A i \in 1..2 :
                                SameNode(contexts[c].elements[k].children[i],
                                         contexts'[c].elements[k].children[3 - i])
                         /\ Events("create")' = {}
                         /\ nodes'[widgets'[contexts'[c].elements[k].id]].children =
                                <<widgets[contexts[c].elements[k].children[2].id],
                                  widgets[contexts[c].elements[k].children[1].id]>>]_vars

\* C8: a pass that swapped the two keyed children of the root container
C8_Witness ==
    /\ last_call.op \in {"render", "set"}
    /\ err = ""
    /\ render_count >= 2
    /\ Events("consolidate") # {}
    /\ Events("create") = {}
    /\ \E c \in DOMAIN contexts : \E k \in DOMAIN contexts[c].elements :
           /\ ChildKeys(contexts[c].elements[k]) = <<"b", "a">>
           /\ Has(widgets, contexts[c].elements[k].id)
           /\ nodes[widgets[contexts[c].elements[k].id]].children =
                  <<widgets[contexts[c].elements[k].children[1].id],
                    widgets[contexts[c].elements[k].children[2].id]>>
           /\ nodes[widgets[contexts[c].elements[k].children[1].id]].props.description = "y"
           /\ widgets[contexts[c].elements[k].children[1].id] >
                  widgets[contexts[c].elements[k].children[2].id]

\* the keys of context c that hold a native element before and after the
\* call, of different node types
RetypedKeys(c) ==
    {k \in DOMAIN contexts[c].elements \cap DOMAIN contexts'[c].elements :
        /\ IsWidgetEl(contexts[c].elements[k])
        /\ IsWidgetEl(contexts'[c].elements[k])
        /\ contexts[c].elements[k].component # contexts'[c].elements[k].component
        /\ Has(widgets, contexts[c].elements[k].id)}

\* the node n is closed by an event of lg that comes before the creation of
\* the node m
ClosedBefore(lg, n, m) ==
    \E i, j \in DOMAIN lg : /\ i < j
                             /\ lg[i].op = "close" /\ lg[i].node = n
                             /\ lg[j].op = "create" /\ lg[j].node = m

\* the call replaced the node n of the element old by a new node for new
ClosedThenCreated(old, new, n) ==
    /\ Has(widgets', new.id)
    /\ widgets'[new.id] # n
    /\ ClosedBefore(log', n, widgets'[new.id])
    /\ \A o \in (IF Has(orphans, n) THEN orphans[n] ELSE {}) :
           nodes'[o].closed /\ (~nodes[o].closed => ClosedBefore(log', o, widgets'[new.id]))

\* C9 (first part): a successful pass that changes the node type at a key
\* closes the old node and its orphans before it creates the new node.
C9_ClosedThenCreated ==
    [][(/\ last_call'.op \in {"render", "set"}
        /\ err = ""
        /\ err' = ""
        /\ Events("consolidate")' # {})
           => \A c \in DOMAIN contexts : \A k \in RetypedKeys(c) :
                  ClosedThenCreated(contexts[c].elements[k], contexts'[c].elements[k],
                                    widgets[contexts[c].elements[k].id])]_vars

\* C9 (second part): the entry of the previous element is dropped from the map
C9_EntryDropped ==
    [][(/\ last_call'.op \in {"render", "set"}
        /\ err = ""
        /\ err' = ""
        /\ Events("consolidate")' # {})
           => \A c \in DOMAIN contexts : \A k \in RetypedKeys(c) :
                  ~Has(widgets', contexts[c].elements[k].id)]_vars

\* C9: a successful pass that changes the node type at a key closes the old
\* node and its orphans before it creates the new node, drops the entry of
\* the previous element from the element-to-node map, and leaves no element
\* in that map whose node is the old node.
C9_TypeChange ==
    [][(/\ last_call'.op \in {"render", "set"}
        /\ err = ""
        /\ err' = ""
        /\ Events("consolidate")' # {})
           => \A c \in DOMAIN contexts : \A k \in RetypedKeys(c) :
                  /\ ClosedThenCreated(contexts[c].elements[k], contexts'[c].elements[k],
                                       widgets[contexts[c].elements[k].id])
                  /\ ~Has(widgets', contexts[c].elements[k].id)
                  /\ \A e \in DOMAIN widgets' :
                         widgets'[e] # widgets[contexts[c].elements[k].id]]_vars

\* C10: a close() call whose removal of the root element's tree raised
\* nothing succeeds when no committed element and no orphan entry is left,
\* and raises ResourceLeak when one is left.
C10_CloseResourceLeak ==
    (last_call.op = "close" /\ err \in {"", "ResourceLeak"})
        => (err = "ResourceLeak" <=> (rc_elements # {} \/ DOMAIN orphans # {}))

\* C10: a close() call that found a committed element left, and raised
C10_Witness ==
    /\ last_call.op = "close"
    /\ err = "ResourceLeak"
    /\ rc_elements # {}

-----------------------------------------------------------------------------
(* C11 *)

RECURSIVE TreeRefs(_, _)
RECURSIVE ChildRefs(_, _, _)

\* the references _visit_children makes from the i-th child of el on
ChildRefs(el, key, i) ==
    IF i > Len(el.children) THEN << >>
    ELSE TreeRefs(el.children[i], ChildKey(key, i - 1)) \o ChildRefs(el, key, i + 1)

\* the references of one context's walk from el down: the resolved key and
\* the element of each
TreeRefs(el, default_key) ==
    <<[key |-> ResolveKey(el, default_key), id |-> el.id]>>
        \o ChildRefs(el, ResolveKey(el, default_key), 1)

\* the root element of the context c
RootOf(c) == IF c = context_root THEN element ELSE contexts[c].root_element

\* two references of the walk of c resolve to one key
SameKeyTwice(c) ==
    \E i, j \in DOMAIN TreeRefs(RootOf(c), "/") :
        i < j /\ TreeRefs(RootOf(c), "/")[i].key = TreeRefs(RootOf(c), "/")[j].key

\* two distinct elements of the walk of c resolve to one key
DistinctSameKey(c) ==
    \E i, j \in DOMAIN TreeRefs(RootOf(c), "/") :
        /\ TreeRefs(RootOf(c), "/")[i].key = TreeRefs(RootOf(c), "/")[j].key
        /\ TreeRefs(RootOf(c), "/")[i].id # TreeRefs(RootOf(c), "/")[j].id

\* C11: a pass in which two distinct elements resolve to the same key in one
\* context raises KeyCollision (no call that ran a pass succeeds with such a
\* pair in a mounted context), and KeyCollision is raised only when some
\* context's walk of this pass meets one key twice: keys of earlier passes
\* and of other contexts do not count.
C11_KeyCollision ==
    /\ ((\E i \in DOMAIN log : log[i].op = "render") /\ err = "")
          => \A c \in Mounted : ~DistinctSameKey(c)
    /\ err = "KeyCollision"
          => \E c \in DOMAIN contexts : RootOf(c) # NoEl /\ SameKeyTwice(c)

\* a render() call raised KeyCollision for two sibling elements with one
\* explicit key, after an earlier pass had used that key
C11_Witness ==
    /\ err = "KeyCollision"
    /\ last_call.op = "render"
    /\ calls >= 2
    /\ Len(element.children) = 2
    /\ element.children[1].key = "a"
    /\ element.children[2].key = "a"
    /\ element.children[1].id # element.children[2].id

-----------------------------------------------------------------------------
(* C12 *)

\* the i-th entry of hook_log is a setter call that changed its slot
Changed(i) == hook_log[i].op = "set" /\ hook_log[i].wrote

\* the first entry after the i-th that reads or writes the slot of the i-th
NextOnSlot(i) ==
    CHOOSE k \in DOMAIN hook_log :
        /\ k > i
        /\ hook_log[k].ctx = hook_log[i].ctx
        /\ hook_log[k].key = hook_log[i].key
        /\ \A m \in i + 1..k - 1 : \/ hook_log[m].ctx # hook_log[i].ctx
                                    \/ hook_log[m].key # hook_log[i].key

\* a walk of the tree with walk index in slots was made after the i-th entry
WalkAfter(i, slots) ==
    \E j \in DOMAIN log : j > hook_log[i].at /\ log[j].op = "render" /\ log[j].slot \in slots

\* what C12 says of the i-th entry of hook_log
SetterStartsPass(i) ==
    /\ err = "" =>
          IF \E k \in DOMAIN hook_log : /\ k > i
                                        /\ hook_log[k].ctx = hook_log[i].ctx
                                        /\ hook_log[k].key = hook_log[i].key
          THEN /\ hook_log[NextOnSlot(i)].op = "use_state"
               /\ hook_log[NextOnSlot(i)].value = hook_log[i].value
          ELSE contexts[hook_log[i].ctx].state[hook_log[i].key] = hook_log[i].value
    /\ ~hook_log[i].in_pass =>
          /\ WalkAfter(i, {0})
          /\ err = "" => Events("consolidate") # {}
    /\ hook_log[i].in_pass =>
          /\ ~WalkAfter(i, {0})
          /\ err = "" => WalkAfter(i, 1..MaxRenders + 1)

\* C12: a setter call that changes its slot stores the value (the next
\* use_state of the slot returns it, and the slot holds it when the call
\* ends without another use of the slot); called when no pass is in flight it
\* starts one render+consolidate cycle before it returns; called during a
\* pass it starts no nested pass (no further first walk, render_count grows
\* by one in the whole call) and, when the in-flight call returns, a
\* stabilization re-render was made after the setter call.
C12_SetterPass ==
    [][\A i \in DOMAIN hook_log' :
          Changed(i)' => SetterStartsPass(i)' /\ render_count' = render_count + 1]_vars

\* the same for the calls made while the guard _is_rendering is clear
C12_GuardClear ==
    [][~is_rendering =>
          \A i \in DOMAIN hook_log' :
              Changed(i)' => SetterStartsPass(i)' /\ render_count' = render_count + 1]_vars

-----------------------------------------------------------------------------
(* C13 *)

\* the value a setter call with argument upd gives a slot holding old
Resulting(upd, old) == IF upd.fn THEN old + upd.v ELSE upd.v

\* the eq of the setter of slot key of the component of context c of the
\* heap cs
EqOf(cs, c, key) == IF key = "0" THEN cs[c].invoke_element.script.eq ELSE "None"

\* every setter call of the last call had a resulting value equal to the
\* slot's value under the setter's eq
OnlyEqualSets ==
    /\ \E i \in DOMAIN hook_log : hook_log[i].op = "set"
    /\ \A i \in DOMAIN hook_log :
           hook_log[i].op = "set"
               => EqHolds(EqOf(contexts, hook_log[i].ctx, hook_log[i].key),
                          hook_log[i].arg, hook_log[i].value)

\* C13: a setter call whose resulting value (the value given, or the
\* updater applied to the slot's value) equals the slot's value under the
\* setter's eq (default equality without eq) changes neither the slot nor
\* the flag _state_changed and starts no pass: called from outside a pass
\* it leaves every context as it was and makes no walk; called by a render
\* function it causes no stabilization re-render.
C13_NoOpSetter ==
    [][/\ (/\ last_call'.op = "set"
            /\ EqHolds(EqOf(contexts, last_call'.ctx, last_call'.key),
                       contexts[last_call'.ctx].state[last_call'.key],
                       Resulting(last_call'.value,
                                 contexts[last_call'.ctx].state[last_call'.key])))
           => /\ contexts' = contexts
              /\ state_changed' = state_changed
              /\ render_count' = render_count
              /\ log' = << >>
              /\ err' = ""
       /\ (last_call'.op = "render" /\ OnlyEqualSets')
           => /\ Cardinality(Events("render")') = 1
              /\ ~state_changed'
              /\ \A i \in DOMAIN hook_log' :
                     hook_log'[i].op = "set"
                         => contexts'[hook_log'[i].ctx].state[hook_log'[i].key]
                                = hook_log'[i].arg]_vars

\* a setter with eq comparing parities was called with 2 on a slot holding
\* 0 and nothing happened
C13_Witness ==
    /\ last_call.op = "set"
    /\ last_call.value = [fn |-> FALSE, v |-> 2]
    /\ last_call.key = "0"
    /\ EqOf(contexts, last_call.ctx, "0") = "mod2"
    /\ contexts[last_call.ctx].state["0"] = 0
    /\ ~is_rendering
    /\ log = << >>

-----------------------------------------------------------------------------
(* C14 *)

\* the j-th entry of hook_log uses the slot of the k-th
OnSlotOf(j, k) ==
    /\ hook_log[j].op \in {"use_state", "set"}
    /\ hook_log[j].ctx = hook_log[k].ctx
    /\ hook_log[j].key = hook_log[k].key

\* an entry of hook_log before the k-th uses the slot of the k-th
UsedEarlier(k) == \E j \in 1..k - 1 : OnSlotOf(j, k)

\* the last such entry
LastOnSlot(k) ==
    CHOOSE j \in 1..k - 1 : OnSlotOf(j, k) /\ \A m \in j + 1..k - 1 : ~OnSlotOf(m, k)

\* what the slot holds after the j-th entry of hook_log
SlotAfter(j) ==
    IF hook_log[j].op = "set" /\ ~hook_log[j].wrote THEN hook_log[j].arg
    ELSE hook_log[j].value

\* the invocation of the render function the k-th entry belongs to
InvocationOf(k) ==
    CHOOSE j \in 1..k - 1 :
        hook_log[j].op = "call" /\ \A m \in j + 1..k - 1 : hook_log[m].op # "call"

\* the number of use_state calls without key of that invocation before the k-th
IndexOf(k) ==
    Cardinality({j \in InvocationOf(k) + 1..k - 1 :
                    hook_log[j].op = "use_state" /\ hook_log[j].key_arg = NoKey})

\* the slot the k-th entry, a use_state call, must address
SlotOf(k) ==
    IF hook_log[k].key_arg = NoKey THEN ToString(IndexOf(k)) ELSE hook_log[k].key_arg


\* C14: use_state returns its initial argument when the slot was never
\* addressed in the context, and otherwise what the slot holds: the value
\* last stored by the slot's setter, or the first initial value, whatever the
\* initial argument of this call; a call without key addresses the slot of
\* its index among the calls without key of the same invocation of the
\* render function; and a component that is at the same key of the same
\* parent before and after a successful call keeps its context.
C14_UseState ==
    [][/\ \A k \in DOMAIN hook_log' :
              hook_log'[k].op = "use_state" =>
                  /\ hook_log'[k].key = SlotOf(k)'
                  /\ hook_log'[k].value =
                         IF UsedEarlier(k)' THEN SlotAfter(LastOnSlot(k))'
                         ELSE IF /\ hook_log'[k].ctx \in DOMAIN contexts
                                 /\ Has(contexts[hook_log'[k].ctx].state, hook_log'[k].key)
                         THEN contexts[hook_log'[k].ctx].state[hook_log'[k].key]
                         ELSE hook_log'[k].arg
       /\ err' = "" =>
              \A p \in Mounted \cap Mounted' :
                  \A k \in DOMAIN contexts[p].children \cap DOMAIN contexts'[p].children :
                      contexts[contexts[p].children[k]].invoke_element.component
                          = contexts'[contexts'[p].children[k]].invoke_element.component
                      => contexts'[p].children[k] = contexts[p].children[k]]_vars

\* the setter of the slot of index 2 was called from outside a pass and the
\* pass it started read the stored value, not the initial argument, from
\* the third use_state call without key
C14_Witness ==
    /\ last_call.op = "set"
    /\ last_call.key = "2"
    /\ err = ""
    /\ \E k \in DOMAIN hook_log :
           /\ hook_log[k].op = "use_state"
           /\ hook_log[k].key_arg = NoKey
           /\ hook_log[k].key = "2"
           /\ hook_log[k].value = hook_log[1].value
           /\ hook_log[k].value # hook_log[k].arg

-----------------------------------------------------------------------------
(* C15 *)

\* C15: between the calls of the program (after every render() or setter
\* call that returned or raised) no render context is active, and a hook
\* called then raises NoActiveRenderContext.
C15_NoActiveRenderContext ==
    /\ ~rc_global
    /\ last_call.op = "hook" => err = "NoActiveRenderContext"

\* a hook was called after a render() call that raised in its stabilization
\* loop (the guard is still set) and raised NoActiveRenderContext
C15_Witness ==
    /\ last_call.op = "hook"
    /\ err = "NoActiveRenderContext"
    /\ is_rendering
    /\ render_count > 0

-----------------------------------------------------------------------------
(* C16 *)

\* in the chain of the k-th entry of hook_log, a use_context call, the
\* contexts that provided the key
Providers(k) == {i \in DOMAIN hook_log[k].arg : Has(hook_log[k].arg[i], hook_log[k].key)}

\* C16: use_context(key) returns the value that the nearest context of the
\* chain from the current context up through the parents provided under
\* key, whatever the value, and raises ContextNotFound exactly when no
\* context of the chain provided key.
C16_UseContext ==
    \A k \in DOMAIN hook_log :
        hook_log[k].op = "use_context" =>
            IF Providers(k) = {} THEN hook_log[k].value.raised
            ELSE /\ ~hook_log[k].value.raised
                 /\ hook_log[k].value.value
                        = hook_log[k].arg[CHOOSE i \in Providers(k) :
                                             \A j \in Providers(k) : i <= j][hook_log[k].key]

\* the same for the calls in whose chain no context provided None
C16_NoneNotProvided ==
    \A k \in DOMAIN hook_log :
        (/\ hook_log[k].op = "use_context"
         /\ \A i \in Providers(k) : hook_log[k].arg[i][hook_log[k].key] # None) =>
            IF Providers(k) = {} THEN hook_log[k].value.raised
            ELSE /\ ~hook_log[k].value.raised
                 /\ hook_log[k].value.value
                        = hook_log[k].arg[CHOOSE i \in Providers(k) :
                                             \A j \in Providers(k) : i <= j][hook_log[k].key]

-----------------------------------------------------------------------------
(* C17 *)

\* the k-th entry of hook_log is a use_memo call
IsMemo(k) == hook_log[k].op = "use_memo"

\* an earlier entry of hook_log is a use_memo call on the slot of the k-th
MemoEarlier(k) ==
    \E j \in 1..k - 1 : /\ IsMemo(j)
                         /\ hook_log[j].ctx = hook_log[k].ctx
                         /\ hook_log[j].key = hook_log[k].key

\* the memo slot of the context c addressed by the key of a hook_log entry
MemoSlot(cs, c, key) ==
    IF c \in DOMAIN cs /\ \E i \in DOMAIN cs[c].memo : ToString(i - 1) = key
    THEN cs[c].memo[CHOOSE i \in DOMAIN cs[c].memo : ToString(i - 1) = key]
    ELSE NoMemo

\* C17: a use_memo call on a slot calls the compute function when the slot
\* holds no computation yet, and afterwards exactly when the pair (args,
\* kwargs) passed differs from the pair recorded by the last computation;
\* otherwise it returns the cached value and leaves the slot as it was; a
\* call that computes records the value and the pair.  The slot a pass
\* finds is the slot the last pass left.
C17_UseMemo ==
    [][\A k \in DOMAIN hook_log' :
          IsMemo(k)' =>
              /\ MemoEarlier(k)' \/ hook_log'[k].arg.before
                                       = MemoSlot(contexts, hook_log'[k].ctx, hook_log'[k].key)
              /\ hook_log'[k].value.computed
                     <=> \/ ~hook_log'[k].arg.before.some
                         \/ hook_log'[k].arg.before.deps # hook_log'[k].arg.deps
              /\ hook_log'[k].value.computed
                     => /\ hook_log'[k].value.after.some
                        /\ hook_log'[k].value.after.deps = hook_log'[k].arg.deps
                        /\ hook_log'[k].value.value = hook_log'[k].value.after.value
              /\ ~hook_log'[k].value.computed
                     => /\ hook_log'[k].value.after = hook_log'[k].arg.before
                        /\ hook_log'[k].value.value = hook_log'[k].arg.before.value]_vars

\* a pass after a setter call found the pair of the last computation and
\* returned the cached value 100, which the compute function would no longer
\* return
C17_Witness ==
    /\ last_call.op = "set"
    /\ err = ""
    /\ \E k \in DOMAIN hook_log :
           /\ IsMemo(k)
           /\ hook_log[k].key = "0"
           /\ ~hook_log[k].value.computed
           /\ hook_log[k].value.value = 100
           /\ contexts[hook_log[k].ctx].state["0"] = 1

-----------------------------------------------------------------------------
(* C18 *)

\* the k-th entry of hook_log is a get_widget call for an element of an
\* earlier pass that is no longer committed nor pending
Superseded(k) ==
    /\ hook_log[k].op = "get_widget"
    /\ hook_log[k].arg.known
    /\ ~hook_log[k].arg.committed
    /\ ~hook_log[k].arg.pending

\* C18: get_widget called for an element of an already-replaced pass (an
\* element that a newer element superseded at its key, by replacement or by
\* an update in place) raises StaleElementReference and returns no node.
C18_StaleElementReference ==
    \A k \in DOMAIN hook_log :
        Superseded(k) => hook_log[k].value.raised /\ err = "StaleElementReference"

-----------------------------------------------------------------------------
(* C19 *)

\* the call ran a pass and returned
PassReturned == err = "" /\ \E i \in DOMAIN log : log[i].op = "render"

\* the committed native elements of the context c that declare a handler
Declaring(c) ==
    {el \in Range(contexts[c].elements) : IsWidgetEl(el) /\ el.handlers # << >>}

\* every handler that el declares observes its property on the node of el
Registered(el) ==
    /\ Has(widgets, el.id)
    /\ \A i \in DOMAIN el.handlers :
           \E o \in nodes[widgets[el.id]].observers : o[1] = el.handlers[i] /\ o[3] = el.id

\* C19: when a successful pass returns, every committed native element that
\* declares an on_<name> handler, in any context, the root context
\* included, has the handler registered as observer of <name> on its node.
C19_HandlersRegistered ==
    PassReturned => \A c \in Mounted : \A el \in Declaring(c) : Registered(el)

\* the same for the contexts of function components only
C19_InComponents ==
    PassReturned => \A c \in Mounted \ {context_root} : \A el \in Declaring(c) : Registered(el)

-----------------------------------------------------------------------------
(* C20 *)

\* thread t executes a render+consolidate cycle
InCycle(t) == thread_pc[t] \in {"render_in", "render_loop", "render_end"}

\* thread t executes close(): the block under the lock or what follows it
InClose(t) == thread_pc[t] \in {"close_in", "close_tail"}

\* thread t executes the block of close() under the lock
InCloseLocked(t) == thread_pc[t] = "close_in"

\* C20: at most one thread at a time executes a render+consolidate cycle or
\* close(), and a thread that called render() or close() goes on only when
\* no other thread executes one.
C20_OneThread ==
    /\ [](\A t, u \in Threads :
             t # u => ~((InCycle(t) \/ InClose(t)) /\ (InCycle(u) \/ InClose(u))))
    /\ [][\A t, u \in Threads :
             t # u /\ thread_pc[t] \in {"render_wait", "close_wait"} /\ thread_pc'[t] # thread_pc[t]
                 => ~(InCycle(u) \/ InClose(u))]_vars

\* the same for the cycles and the block of close() under the lock
C20_UnderLock ==
    /\ [](\A t, u \in Threads :
             t # u => ~((InCycle(t) \/ InCloseLocked(t)) /\ (InCycle(u) \/ InCloseLocked(u))))
    /\ [][\A t, u \in Threads :
             t # u /\ thread_pc[t] \in {"render_wait", "close_wait"} /\ thread_pc'[t] # thread_pc[t]
                 => ~(InCycle(u) \/ InCloseLocked(u))]_vars

-----------------------------------------------------------------------------
(* C21 *)

\* the step is a setter call of thread t that changed its slot
SetterStep(t) ==
    /\ calls' = calls + 1
    /\ last_call'.op = "set"
    /\ last_call'.thread = t
    /\ contexts' # contexts

\* C21: a setter called on a thread while another thread executes a pass
\* does not return: it waits for the lock (and then runs its own pass, which
\* reads the new value).
C21_SetterBlocks ==
    [][\A t \in Threads :
           SetterStep(t) /\ (\E u \in Threads \ {t} : InCycle(u))
               => thread_pc'[t] = "render_wait"]_vars

\* the same for the setter calls that find the guard _is_rendering clear
C21_GuardClear ==
    [][\A t \in Threads :
           SetterStep(t) /\ ~is_rendering => thread_pc'[t] = "render_wait"]_vars

-----------------------------------------------------------------------------
(* C22 *)

\* the hook slots (state and memo) of the contexts of the heap cs
HookSlots(cs) == [c \in DOMAIN cs |-> <<cs[c].state, cs[c].memo>>]

\* the step writes a hook slot or the map _widgets
WritesShared == HookSlots(contexts') # HookSlots(contexts) \/ widgets' # widgets

\* C22: the hook slots and the element-to-node map are written only by a
\* thread that holds thread_lock, a setter's write to its slot included.
C22_WritesUnderLock ==
    [][WritesShared => thread_lock # 0 /\ last_call'.thread = thread_lock]_vars

\* the same for the steps of render() and close()
C22_PassUnderLock ==
    [][WritesShared /\ last_call'.op # "set"
           => thread_lock # 0 /\ last_call'.thread = thread_lock]_vars

-----------------------------------------------------------------------------
(* C23 *)

\* the j-th entry of hook_log' is the invocation of a render function
IsCall(j) == hook_log'[j].op = "call"

\* the entries i and j are invocations at the same key of the same context
SamePlace(i, j) ==
    /\ IsCall(i) /\ IsCall(j)
    /\ hook_log'[i].key = hook_log'[j].key
    /\ hook_log'[i].arg.parent = hook_log'[j].arg.parent

\* the last invocation before the j-th at its place, if any
Earlier(j) ==
    {i \in 1..j - 1 : SamePlace(i, j) /\ \A m \in i + 1..j - 1 : ~SamePlace(m, j)}

\* the context among the pending children at the place of the j-th entry:
\* that of the last earlier invocation there, or the one pending when the
\* call began
Pending(j) ==
    IF Earlier(j) # {}
    THEN {[ctx |-> hook_log'[i].ctx, component |-> hook_log'[i].arg.component] : i \in Earlier(j)}
    ELSE IF /\ hook_log'[j].arg.parent \in DOMAIN contexts
            /\ Has(contexts[hook_log'[j].arg.parent].children_next, hook_log'[j].key)
    THEN {[ctx |-> contexts[hook_log'[j].arg.parent].children_next[hook_log'[j].key],
           component |-> contexts[contexts[hook_log'[j].arg.parent].children_next[
                                      hook_log'[j].key]].invoke_element.component]}
    ELSE {}

\* that context when it was created for the component of the j-th entry
PendingSame(j) ==
    {p.ctx : p \in {q \in Pending(j) : q.component = hook_log'[j].arg.component}}

\* the context of the previous commit at the place of the j-th entry
Committed(j) ==
    IF /\ hook_log'[j].arg.parent \in DOMAIN contexts
       /\ Has(contexts[hook_log'[j].arg.parent].children, hook_log'[j].key)
    THEN {contexts[hook_log'[j].arg.parent].children[hook_log'[j].key]}
    ELSE {}

\* that context when it was created for the component of the j-th entry
CommittedSame(j) ==
    {c \in Committed(j) : contexts[c].invoke_element.component = hook_log'[j].arg.component}

\* the context of the j-th entry is a new one with empty hook slots
Fresh(j) ==
    /\ hook_log'[j].ctx > Len(contexts)
    /\ \A i \in 1..j - 1 : IsCall(i) => hook_log'[i].ctx # hook_log'[j].ctx
    /\ hook_log'[j + 1].op = "use_state" /\ hook_log'[j + 1].wrote

\* the context c and what it held are gone after the step
Removed(c) ==
    /\ c \notin Mounted'
    /\ \A el \in Range(contexts[c].elements) : el.id \notin rc_elements'

\* C23: a function component's element rendered at a key reuses the context
\* of the previous commit or of this cycle's pending children at that key
\* exactly when that context was created for the same component; otherwise
\* its context is a new one with empty hook slots, and when the cycle
\* succeeds the context of the previous commit that was not reused is
\* removed with its subtree.
C23_ContextReuse ==
    [][calls' = calls + 1 =>
          \A j \in DOMAIN hook_log' :
              IsCall(j) =>
                  /\ IF PendingSame(j) \cup CommittedSame(j) # {}
                     THEN hook_log'[j].ctx \in PendingSame(j) \cup CommittedSame(j)
                     ELSE Fresh(j)
                  /\ err' = "" => \A c \in Committed(j) \ CommittedSame(j) : Removed(c)]_vars

\* the previous commit holds at the place of the j-th entry a context of
\* another component, and the pending children one of its own component
Hidden(j) == Committed(j) \ CommittedSame(j) # {} /\ PendingSame(j) # {}

\* the same for the invocations whose pending context is not hidden, in
\* calls that find the guard _is_rendering clear
C23_NotHidden ==
    [][calls' = calls + 1 /\ ~is_rendering =>
          \A j \in DOMAIN hook_log' :
              IsCall(j) /\ ~Hidden(j) =>
                  /\ IF PendingSame(j) \cup CommittedSame(j) # {}
                     THEN hook_log'[j].ctx \in PendingSame(j) \cup CommittedSame(j)
                     ELSE Fresh(j)
                  /\ err' = "" => \A c \in Committed(j) \ CommittedSame(j) : Removed(c)]_vars

-----------------------------------------------------------------------------
(* C24 *)

\* the walk of the context c after the step meets one element at several places
Repeated(c) ==
    \E i, j \in DOMAIN TreeRefs(RootOf(c), "/")' :
        i < j /\ TreeRefs(RootOf(c), "/")'[i].id = TreeRefs(RootOf(c), "/")'[j].id

\* the elements of the tree el
RECURSIVE TreeEls(_)
TreeEls(el) == {el} \cup UNION {TreeEls(el.children[i]) : i \in DOMAIN el.children}

\* after the step every element of the tree of c has a live node, and the
\* node of an element with children holds the nodes of the children, in order
OneNodeEach(c) ==
    \A el \in TreeEls(RootOf(c))' :
        /\ Has(widgets', el.id)
        /\ ~nodes'[widgets'[el.id]].closed
        /\ IsWidgetEl(el) /\ el.has_children
               => nodes'[widgets'[el.id]].children =
                      [i \in DOMAIN el.children |-> widgets'[el.children[i].id]]

\* no render function was called more often than the tree was walked
ExpandedOnce ==
    \A c \in DOMAIN contexts' :
        Cardinality({j \in DOMAIN hook_log' : IsCall(j) /\ hook_log'[j].ctx = c})
            <= Cardinality({i \in DOMAIN log' : log'[i].op = "render"})

\* C24: a pass whose tree references one element instance at several places,
\* with or without an explicit key, does not fail; the element is expanded
\* once per walk and every reference gets the one node of the element.
C24_SharedElement ==
    [][(/\ calls' = calls + 1
        /\ ~is_rendering
        /\ (\E i \in DOMAIN log' : log'[i].op = "render")
        /\ (\E c \in DOMAIN contexts' : Repeated(c)))
           => /\ err' = ""
              /\ ExpandedOnce
              /\ \A d \in DOMAIN contexts' : Repeated(d) => OneNodeEach(d)]_vars

\* the same for the passes over new elements, before any close(), in which
\* the references to one element resolve to different keys
C24_DifferentKeys ==
    [][(/\ calls' = calls + 1
        /\ ~is_rendering
        /\ (last_root_widget = 0 \/ ~nodes[last_root_widget].closed)
        /\ ~(last_call'.op = "render" /\ last_call'.root = 0)
        /\ (\E i \in DOMAIN log' : log'[i].op = "render")
        /\ (\E c \in DOMAIN contexts' : Repeated(c))
        /\ (\A c \in DOMAIN contexts' : ~SameKeyTwice(c)'))
           => /\ err' = ""
              /\ ExpandedOnce
              /\ \A d \in DOMAIN contexts' : Repeated(d) => OneNodeEach(d)]_vars

-----------------------------------------------------------------------------
(* C25 *)

\* a call that consolidated has returned
CycleReturned == err = "" /\ \E i \in DOMAIN log : log[i].op = "consolidate"

\* C25: no element is at once in the pending set (_elements_next) and in the
\* committed set (_elements), and the pending set is empty when a
\* render+consolidate cycle has returned successfully.
C25_PendingOrCommitted ==
    /\ rc_elements_next \cap rc_elements = {}
    /\ CycleReturned => rc_elements_next = {}

\* the second half alone
C25_PendingEmpty == CycleReturned => rc_elements_next = {} /\ rc_elements # {}

-----------------------------------------------------------------------------
(* C26 *)

\* the native elements of the committed element map of the context c
NativeCommitted(c) ==
    {contexts[c].elements[k].id :
         k \in {x \in DOMAIN contexts[c].elements : IsWidgetEl(contexts[c].elements[x])}}

\* the nodes of the committed native elements of c are live
NodesLive(c) ==
    \A id \in NativeCommitted(c) : Has(widgets, id) /\ ~nodes[widgets[id]].closed

\* C26: after a successful pass the owned set of every context of the tree
\* is the set of the native elements of its committed element map, and the
\* nodes of these elements are live.
C26_OwnedCommitted ==
    CycleReturned => \A c \in Mounted : contexts[c].owns = NativeCommitted(c) /\ NodesLive(c)

\* the half that holds: every committed native element is owned and live
C26_CommittedOwned ==
    CycleReturned => \A c \in Mounted : NativeCommitted(c) \subseteq contexts[c].owns /\ NodesLive(c)

-----------------------------------------------------------------------------
(* C27 *)

RECURSIVE Below(_, _, _)
\* the contexts reached from those of X in n steps along children, in the
\* contexts cs
Below(cs, X, n) ==
    IF n = 0 \/ UNION {Range(cs[c].children) : c \in X} \subseteq X THEN X
    ELSE Below(cs, X \cup UNION {Range(cs[c].children) : c \in X}, n - 1)

\* the context c and the contexts under it
SubContexts(cs, c) == Below(cs, {c}, Len(cs))

\* the nodes of the native elements committed in the context c
NodesOf(cs, ws, c) ==
    {ws[cs[c].elements[k].id] :
         k \in {x \in DOMAIN cs[c].elements :
                    IsWidgetEl(cs[c].elements[x]) /\ Has(ws, cs[c].elements[x].id)}}

\* the event e is the run of an effect of the context c, or of a cleanup: of
\* an effect of the render function or of the binding of a listener
EffectOf(cs, ws, e, c) ==
    \/ e.op \in {"run", "cleanup"} /\ e.ctx = c
    \/ e.op \in {"observe", "unobserve"} /\ e.node \in NodesOf(cs, ws, c)

\* the event e belongs to the consolidation of the subtree of the context c:
\* a node of the subtree is created, written or closed, or an effect of a
\* context under c runs
SubtreeWork(cs, ws, e, c) ==
    \/ /\ e.op \in {"create", "set", "close"}
       /\ \E d \in SubContexts(cs, c) : e.node \in NodesOf(cs, ws, d)
    \/ \E d \in SubContexts(cs, c) \ {c} : EffectOf(cs, ws, e, d)

\* the events i < j of lg belong to one consolidation
SameConsolidation(lg, i, j) ==
    \A m \in (i + 1)..j : lg[m].op \notin {"consolidate", "render"}

\* the effect events i < j of one context are in the order of declaration:
\* the effects of the render function by their place in it, the bindings
\* of listeners after them
Declared(e1, e2) ==
    /\ e1.op = "run" /\ e2.op = "run" => e1.node < e2.node /\ e1.slot < e2.slot
    /\ e1.op = "observe" => e2.op # "run"

\* C27: in a consolidation, once an effect of a context has run nothing of
\* the subtree of that context's root element is consolidated any more, no
\* effect of a context under it runs, and the effects of one context run in
\* the order of their declaration.
C27_EffectOrder ==
    [][\A c \in DOMAIN contexts' \ {context_root} :
           \A i, j \in DOMAIN log' :
               (/\ i < j
                /\ SameConsolidation(log', i, j)
                /\ EffectOf(contexts', widgets', log'[i], c))
                   => /\ ~SubtreeWork(contexts', widgets', log'[j], c)
                      /\ c \in DOMAIN contexts => ~SubtreeWork(contexts, widgets, log'[j], c)
                      /\ EffectOf(contexts', widgets', log'[j], c)
                             => Declared(log'[i], log'[j])]_vars

\* a pass in which two effects and a listener binding of a context ran,
\* after an effect of a context under it
C27_Witness ==
    /\ err = ""
    /\ \E c \in Mounted \ {context_root} : \E d \in SubContexts(contexts, c) \ {c} :
           \E h, i, j, k \in DOMAIN log :
               /\ h < i /\ i < j /\ j < k
               /\ log[h].op = "run" /\ log[h].ctx = d
               /\ log[i].op = "run" /\ log[i].ctx = c
               /\ log[j].op = "run" /\ log[j].ctx = c
               /\ log[k].op = "observe" /\ log[k].node \in NodesOf(contexts, widgets, c)

-----------------------------------------------------------------------------
(* C28 *)

\* the ids of the elements of the tree el
TreeIds(el) == {e.id : e \in TreeEls(el)}

\* after the step the element id is part of the tree some render function
\* returned, or of the tree passed to render()
Referenced(id) ==
    \E c \in DOMAIN contexts' : contexts'[c].root_element # NoEl /\ id \in TreeIds(RootOf(c))'

\* in the step a render function constructed an element that no tree holds
ConstructedUnreferenced ==
    \E j \in DOMAIN hook_log' : hook_log'[j].op = "element" /\ ~Referenced(hook_log'[j].arg)

\* after the step a context holds a pending element that was not consumed
PendingUnconsumed ==
    \E c \in DOMAIN contexts' :
        \E k \in DOMAIN contexts'[c].elements_next :
            contexts'[c].elements_next[k].id \notin rc_elements'

\* C28: a cycle in which a render function constructs an element that is
\* neither returned nor nested in a returned element fails with
\* UnreferencedElementInvariant, and a cycle raises that error only when a
\* pending element of some context was not consumed.
C28_Unreferenced ==
    [][/\ (~is_rendering /\ calls' = calls + 1 /\ ConstructedUnreferenced)
           => err' = "UnreferencedElementInvariant"
       /\ err' = "UnreferencedElementInvariant" => PendingUnconsumed]_vars

\* the second half alone
C28_OnlyUnconsumed ==
    [][err' = "UnreferencedElementInvariant" => PendingUnconsumed]_vars

\* a cycle that raised UnreferencedElementInvariant
C28_Raised == err = "UnreferencedElementInvariant"

-----------------------------------------------------------------------------
(* C29 *)

\* the innermost open block
Innermost == container_adders[Len(container_adders)]

\* the element k declared in the block ca is nested in the arguments of
\* another element declared in it, at some depth of lists and dicts
NestedInBlock(ca, k) ==
    \E j \in DOMAIN ca.created :
        ca.created[j] # k /\ k \in find_children_deep(block_elements, ca.created[j])

\* the list "children" of the element i of els
ChildrenOf(els, i) ==
    IF Has(els[i].kwargs, "children") THEN els[i].kwargs["children"].items ELSE << >>

\* the elements of the block ca that are nested in no other, in the order
\* of their declaration
TopLevel(ca) == SelectSeq(ca.created, LAMBDA k : ~NestedInBlock(ca, k))

\* C29: leaving a block appends to the children of its element exactly the
\* elements declared in the block that are nested in the arguments of no
\* other element declared in it, at any depth of lists and dicts, in the
\* order of their declaration.
C29_BlockChildren ==
    [][Len(container_adders') < Len(container_adders)
          => ChildrenOf(block_elements', Innermost.el) =
                 ChildrenOf(block_elements, Innermost.el)
                     \o [k \in DOMAIN TopLevel(Innermost) |-> ElV(TopLevel(Innermost)[k])]]_vars

\* in the block ca no element is nested in another below a list in a list
\* or in a dict
FlatBlock(ca) ==
    \A j \in DOMAIN ca.created :
        find_children_deep(block_elements, ca.created[j])
            \subseteq find_children(block_elements, ca.created[j])

\* the same for the blocks whose elements hold others directly or in one
\* list or dict
C29_FlatBlocks ==
    [][(Len(container_adders') < Len(container_adders) /\ FlatBlock(Innermost))
          => ChildrenOf(block_elements', Innermost.el) =
                 ChildrenOf(block_elements, Innermost.el)
                     \o [k \in DOMAIN TopLevel(Innermost) |-> ElV(TopLevel(Innermost)[k])]]_vars

-----------------------------------------------------------------------------
(* C30 *)

\* the keys the walk of the context c resolves
KeysOf(c) == {TreeRefs(RootOf(c), "/")[i].key : i \in DOMAIN TreeRefs(RootOf(c), "/")}

\* the committed element map of the context c holds no key that the walk
\* of c did not resolve, and its elements are the committed ones
NothingAbsent(c) ==
    /\ DOMAIN contexts[c].elements \subseteq KeysOf(c)
    /\ \A k \in DOMAIN contexts[c].elements : contexts[c].elements[k].id \in rc_elements

\* every committed element is in the committed map of a context of the tree
AllInTree ==
    \A id \in rc_elements :
        \E c \in Mounted : \E k \in DOMAIN contexts[c].elements : contexts[c].elements[k].id = id

\* C30: after a successful pass no context of the tree, the root context
\* included, holds a committed element at a key that the pass did not
\* resolve, and no committed element is outside the tree; close() after a
\* successful call closes every node and raises nothing.
C30_AbsentRemoved ==
    [][/\ (calls' = calls + 1 /\ CycleReturned')
           => AllInTree' /\ \A c \in Mounted' : NothingAbsent(c)'
       /\ (calls' = calls + 1 /\ last_call'.op = "close" /\ err = "" /\ ~is_rendering)
           => err' = "" /\ \A n \in DOMAIN nodes' : nodes'[n].closed]_vars

\* the same for the contexts of the function components
C30_InComponents ==
    [][(calls' = calls + 1 /\ CycleReturned')
           => \A c \in Mounted' \ {context_root} : NothingAbsent(c)']_vars

\* a pass after which the context of a function component holds fewer
\* elements than before
C30_Shrunk ==
    /\ CycleReturned
    /\ \E c \in Mounted \ {context_root} :
           /\ NothingAbsent(c)
           /\ Cardinality(contexts[c].owns) > Cardinality(DOMAIN contexts[c].elements)

-----------------------------------------------------------------------------
(* C31 *)

\* the step is a render+consolidate cycle whose first walk was superseded
\* by a stabilization re-render
Rerendered ==
    /\ calls' = calls + 1
    /\ ~is_rendering
    /\ \E i \in DOMAIN log' : log'[i].op = "render" /\ log'[i].slot >= 1

\* after the step a context holds a pending element at a key that its last
\* walk did not resolve
SupersededPending ==
    \E c \in DOMAIN contexts' :
        /\ contexts'[c].root_element # NoEl
        /\ \E k \in DOMAIN contexts'[c].elements_next : k \notin KeysOf(c)'

\* C31: a cycle with a stabilization re-render does not report the pending
\* elements of a superseded iteration as unreferenced.
C31_SupersededDiscarded ==
    [][Rerendered => err' # "UnreferencedElementInvariant"]_vars

\* the error is raised for a superseded element only
C31_OnlySuperseded ==
    [][err' = "UnreferencedElementInvariant" => Rerendered /\ SupersededPending]_vars

-----------------------------------------------------------------------------
(* C32 *)

\* the step made a render() call that found the guard clear
RenderEnded ==
    /\ calls' = calls + 1
    /\ ~is_rendering
    /\ \E i \in DOMAIN log' : log'[i].op = "render" /\ log'[i].slot = 0

\* the call raised in its first walk of the tree
RaisedInFirstWalk ==
    /\ err' # ""
    /\ \A i \in DOMAIN log' :
          /\ log'[i].op # "consolidate"
          /\ log'[i].op = "render" => log'[i].slot = 0

\* C32: when a render() call ends, by returning or by raising at any point,
\* the pass-in-flight guard _is_rendering is clear.
C32_GuardCleared == [][RenderEnded => ~is_rendering']_vars

\* the guard is clear after a call that returned or raised in its first walk
C32_ReturnedOrFirstWalk ==
    [][RenderEnded /\ (err' = "" \/ RaisedInFirstWalk) => ~is_rendering']_vars

-----------------------------------------------------------------------------
(* C33 *)

\* a slot was changed and no walk has read it yet, while a pass is in flight
ChangedInFlight == state_changed /\ \E t \in Threads : InCycle(t)

\* the same while the pass in flight has its stabilization loop before it
ChangedBeforeLoop ==
    /\ state_changed
    /\ \E t \in Threads : thread_pc[t] = "render_loop" /\ thread_frame[t].main_render_phase

\* a walk has read the changed slots since, or a pass raised
ReadOrRaised == ~state_changed \/ err # ""

\* C33: a state change made while a pass is in flight, at any point up to
\* the moment the pass clears its guard, is eventually read by a
\* render+consolidate cycle without a further setter call.
C33_NoLostUpdate == ChangedInFlight ~> ReadOrRaised

\* a change made before the stabilization loop of the pass in flight is read
C33_BeforeLoop == ChangedBeforeLoop ~> ReadOrRaised

-----------------------------------------------------------------------------
(* C34 *)

\* the j-th entry of hook_log' is an invocation of a component that was
\* invoked at the same place in an earlier render iteration of the cycle, in
\* the context of that invocation
KeepsInstance(j) ==
    \A i \in Earlier(j) :
        hook_log'[i].arg.component = hook_log'[j].arg.component
            => hook_log'[j].ctx = hook_log'[i].ctx

\* the previous commit holds a context of another component at the place of
\* the j-th entry
OtherCommitted(j) == Committed(j) \ CommittedSame(j) # {}

\* C34: within one render+consolidate cycle a component instance created in
\* an earlier render iteration is the instance, with its hook state, of every
\* later iteration, also when it is mounted at a key that another component
\* occupied in the previous commit.
C34_KeepsState ==
    [][calls' = calls + 1 /\ ~is_rendering =>
          \A j \in DOMAIN hook_log' : IsCall(j) => KeepsInstance(j)]_vars

\* the same at the keys where the previous commit holds no other component
C34_NotOccupied ==
    [][calls' = calls + 1 /\ ~is_rendering =>
          \A j \in DOMAIN hook_log' :
              IsCall(j) /\ ~OtherCommitted(j) => KeepsInstance(j)]_vars

-----------------------------------------------------------------------------
(* C35 *)

\* the stabilization re-renders of the step, over all its consolidations
Rerenders == {i \in DOMAIN log' : log'[i].op = "render" /\ log'[i].slot >= 1}

\* C35: a render() call that starts a cycle ends after at most 51
\* stabilization re-renders, counted over the whole cycle and not per
\* consolidation, and it makes the 51st exactly when it ends in
\* UnstableRenderLoop; a consolidation is followed by a re-render or by
\* the end of the cycle.
C35_Terminates ==
    [][RenderEnded =>
          /\ Cardinality(Rerenders) <= MaxRenders + 1
          /\ Cardinality(Rerenders) = MaxRenders + 1 <=> err' = "UnstableRenderLoop"
          /\ \A i \in Rerenders : log'[i].slot <= MaxRenders + 1
          /\ \A i, j \in Rerenders : i < j => log'[i].slot < log'[j].slot]_vars

\* C35: a cycle of a component whose effect changes state in every
\* consolidation ended in UnstableRenderLoop after more than 50 re-renders
\* and as many consolidations
C35_Witness ==
    /\ err = "UnstableRenderLoop"
    /\ Cardinality(Events("consolidate")) >= MaxRenders
    /\ Cardinality({i \in Events("render") : log[i].slot >= 1}) = MaxRenders + 1

-----------------------------------------------------------------------------
(* C36 *)

\* the committed native elements whose node is n in the heap (ws, cs)
CommittedOn(ws, cs, n) ==
    {el \in UNION {Range(cs[c].elements) : c \in DOMAIN cs} :
        IsWidgetEl(el) /\ Has(ws, el.id) /\ ws[el.id] = n}

\* every observer of every live node of (ns, ws, cs) was registered for a
\* handler binding of the element committed on the node, one per binding
ObserversCurrent(ns, ws, cs) ==
    \A n \in DOMAIN ns :
        ~ns[n].closed =>
            /\ \A o \in ns[n].observers :
                   \E el \in CommittedOn(ws, cs, n) :
                       o[3] = el.id /\ \E i \in DOMAIN el.handlers : el.handlers[i] = o[1]
            /\ \A o1, o2 \in ns[n].observers :
                   o1[1] = o2[1] /\ o1[3] = o2[3] => o1 = o2

\* the step is a call that ran a pass and returned
PassSucceeded ==
    calls' = calls + 1 /\ err' = "" /\ \E i \in DOMAIN log' : log'[i].op = "render"

\* C36: after successful passes every live node has at most one registered
\* observer per handler binding of its committed element and no observer
\* that was registered for a superseded element: a successful pass that
\* starts from such a state ends in such a state.
C36_Observers ==
    [][ObserversCurrent(nodes, widgets, contexts) /\ err = "" /\ PassSucceeded
           => ObserversCurrent(nodes', widgets', contexts')]_vars

\* the same for the passes in which every committed native element that
\* declared a listener is committed again with its listeners, at its place
\* among the elements of its context that declare listeners
SameBindings ==
    \A c \in DOMAIN contexts :
        /\ c \in DOMAIN contexts'
        /\ \A k \in DOMAIN contexts[c].elements :
               (IsWidgetEl(contexts[c].elements[k]) /\ contexts[c].elements[k].handlers # << >>)
                   => /\ Has(contexts'[c].elements, k)
                      /\ contexts'[c].elements[k].handlers = contexts[c].elements[k].handlers
                      /\ contexts'[c].elements[k].component = contexts[c].elements[k].component

C36_SameBindings ==
    [][ObserversCurrent(nodes, widgets, contexts) /\ err = "" /\ PassSucceeded /\ SameBindings
           => ObserversCurrent(nodes', widgets', contexts')]_vars

-----------------------------------------------------------------------------
(* C37 *)

\* the step made a render() call of this render context
PassRan ==
    /\ calls' = calls + 1
    /\ \E i \in DOMAIN log' : log'[i].op = "render" /\ log'[i].slot = 0

\* every render function invoked and every hook called during the step found
\* the module global _rc pointing to this render context (a setter does not
\* read _rc)
PointerKept ==
    /\ err' # "NoActiveRenderContext"
    /\ \A j \in DOMAIN hook_log' : hook_log'[j].op # "set" => hook_log'[j].in_pass

\* C37: while a pass of this render context is in flight, a pass of another
\* render context that starts or finishes neither replaces nor clears the
\* active-render-context pointer: every hook called in the pass resolves to
\* this render context.
C37_PointerKept == [][PassRan => PointerKept]_vars

\* a render function of the step rendered with another render context
OtherPass == \E j \in DOMAIN hook_log' : hook_log'[j].op = "render_other"

\* the same for the passes during which no other render context renders
C37_NoOtherPass == [][PassRan /\ ~OtherPass => PointerKept]_vars

=============================================================================
